---- MODULE Spec2Model ----
(***************************************************************************)
(* OBS tutorial recorder (Windows): the recording session state machine    *)
(* (core/recording_manager.py) and the control-plane client                *)
(* (core/obs_websocket.py).                                                *)
(*                                                                         *)
(* Spec    the RecordingManager driven by the UI's worker threads          *)
(* SpecWS  OBSWebSocket.send_request against a server that interleaves     *)
(*         events, late replies and the awaited reply on the wire          *)
(***************************************************************************)
EXTENDS Integers, Sequences, FiniteSets, TLC

None == "None"

(* RecordingState, recording_manager.py:44-49 *)
IDLE == "idle"
STARTING == "starting"
RECORDING == "recording"
STOPPING == "stopping"
RecordingState == {IDLE, STARTING, RECORDING, STOPPING}

DEFAULT_SCENE_NAME == "Tutorial Recording"

(* The UI starts one worker thread per click (main_window.py:566-578,      *)
(* 590-595); two of them are enough to have a call arrive while another    *)
(* call is in progress.                                                    *)
Threads == {"worker1", "worker2"}
(* What the user has typed and selected when the start button is clicked   *)
(* (main_window.py:541-542).                                               *)
Clicks == {[project_name |-> "intro", profile_name |-> "Single"],
           [project_name |-> "demo", profile_name |-> "Tutorial"]}

VARIABLES
    (* RecordingManager fields *)
    state,           \* self._state
    session,         \* self._session: NoSession or a SessionInfo
    last_error,      \* self._last_error
    ws,              \* self._ws: None or the OBSWebSocketSync instance
    source_manager,  \* self._source_manager: None or the OBSSourceManager
    session_log,     \* logger's session_path: None or the project it logs to
    (* OBSWebSocket fields *)
    connected,       \* OBSWebSocket._connected (and _ws is not None)
    (* the remote application *)
    obs_running,     \* an OBS process exists
    link_alive,      \* the socket opened by the last handshake is still open
    (* one record per worker thread: the call it is executing *)
    pc,              \* the statement the thread is at
    call,            \* the call: operation and arguments
    rv,              \* value the call returned: "True", "False", None while it runs
    sent,            \* kinds of request the call has put on the socket
    steps,           \* pipeline steps the call has run without aborting, in order
    record_resp,     \* the Response to the call's StartRecord / StopRecord
    iso_scene,       \* scene name the call passed to enable/disable_iso_recording
    (* the OBSWebSocket instance behind self._ws *)
    request_id,      \* OBSWebSocket._request_id
    handshakes,      \* handshakes completed since it was made or disconnected
    connect_rv,      \* what connect() returned last
    event_callbacks,         \* _event_callbacks: type -> callbacks, in order
    global_event_callbacks,  \* _global_event_callbacks, in order
    invoked,         \* the last _handle_event: its type, the callbacks it ran
    (* the socket and the server behind it *)
    wire,            \* frames the server has sent and the client has not read
    outstanding,     \* ids transmitted whose reply the server has not sent
    arrived,         \* event types sent during the call or unread at its start
    transmitted,     \* every id the process has written to a socket, in order
    (* OBSWebSocketSync._run and the calls of send_request *)
    wpc,             \* where each thread's call of send_request is
    cur,             \* the request the call is waiting on
    result,          \* the Response send_request returned to the thread last
    answer,          \* the frame whose status that Response carries
    events,          \* event types handed to _handle_event during the call
    dropped,         \* ids of the response frames the call read and discarded
    since_sent,      \* time since the call wrote its request
    since_recv,      \* time the call's current recv() has been waiting
    (* OBSSourceManager against the remote app, one caller *)
    obs,             \* the remote app: its profiles, scenes, inputs, scene items
    accepting,       \* the remote app answers every request it is sent
    fault,           \* how a request fails while it does not
    profile_config,  \* the ProfileConfiguration start_recording loaded
    sm_pc,           \* where the caller is in steps 5 to 11 of start_recording
    sm_op,           \* the source-manager operation that returned last
    cp_reqs,         \* request types sent since configure_profile was entered
    todo,            \* sources configure_profile has still to create
    attempts,        \* calls of start_recording begun
    (* the directories _collect_recordings works on *)
    files,           \* entries of the Videos directory and of raw/
    session_folder,  \* entries of raw/<timestamp>, the session's subfolder
    start_time,      \* self._session.start_time, NoTime without a session
    now,             \* the clock the modification times are taken from
    cutoff,          \* the start time the last collection compared with
    (* OBSWebSocket.connect, attempt by attempt *)
    retry,           \* the connect() running or run last: its attempts
    (* DeviceEnumerator and the device bindings of the inputs *)
    enumerated,      \* the device lists have been read and are cached
    enum_cameras,    \* DeviceEnumerator._cameras, in enumeration order
    enum_audio,      \* DeviceEnumerator._audio_inputs, in enumeration order
    input_settings,  \* the camera and audio inputs of OBS, each with its device
    settings_read,   \* the inputs as the last verify_and_fix pass read them
    fixes,           \* SetInputSettings sent by the last verify_and_fix pass
    changes,         \* device changes made by hand in OBS
    (* RecordingManager._set_state *)
    state_callbacks, \* self._state_callbacks, in registration order
    notified         \* the last _set_state: the state, the callbacks it ran

rmvars == <<state, session, last_error, ws, source_manager, session_log,
            obs_running, link_alive, pc, call, rv, sent, steps, record_resp,
            iso_scene>>
(* the client instance, the socket, the calls in flight *)
clientvars == <<request_id, handshakes, connect_rv, event_callbacks,
                global_event_callbacks, invoked>>
sockvars == <<wire, outstanding, arrived, transmitted>>
callvars == <<wpc, cur, result, answer, events, dropped, since_sent,
              since_recv>>
wsvars == <<clientvars, sockvars, callvars>>
(* what OBSWebSocket never touches *)
rmquiet == <<state, session, last_error, ws, source_manager, session_log,
             obs_running, pc, call, rv, sent, steps, record_resp, iso_scene>>
smvars == <<obs, accepting, fault, profile_config, sm_pc, sm_op, cp_reqs, todo,
            attempts>>
fsvars == <<files, session_folder, start_time, now, cutoff>>
devvars == <<enumerated, enum_cameras, enum_audio, input_settings,
             settings_read, fixes, changes>>
cbvars == <<state_callbacks, notified>>
othervars == <<retry, devvars, cbvars>>
vars == <<rmvars, connected, wsvars, smvars, fsvars, othervars>>

(***************************************************************************)
(* Responses as the manager sees them (OBSResponse, obs_websocket.py:40-48) *)
(***************************************************************************)
NoCode == 0
ALREADY_EXISTS == 601
(* a failure code that is not 601 *)
OTHER_CODE == ALREADY_EXISTS - 1

(* What self._ws.<request>() can return: the not-connected short-circuit   *)
(* (send_request 205-213), an exception turned into a failed Response      *)
(* (281-289) when the socket is gone, else the server's answer or a        *)
(* timeout (272-280).                                                      *)
Responses(answers) ==
    IF ~connected THEN {"not_connected"}
    ELSE IF ~link_alive THEN {"error"}
    ELSE answers

(* The server's answers that a caller can tell apart: a request whose      *)
(* failure code is never read, a create request (601 is read), and the     *)
(* record commands (the timeout is kept apart from the rejection).         *)
Answer == {"ok", "rejected"}
CreateAnswer == {"ok", "exists", "rejected"}
RecordAnswer == {"ok", "rejected", "timeout"}

(* a timed-out request taken for an acknowledged one *)
success_or_timeout(r) == r \in {"ok", "timeout"}

success(r) == r = "ok"

error_code(r) ==
    CASE r = "exists" -> ALREADY_EXISTS
      [] r = "rejected" -> OTHER_CODE
      [] OTHER -> NoCode

(* The request reaches the socket unless send_request short-circuits. *)
Tx(request_type, r) == IF r = "not_connected" THEN {} ELSE {request_type}

(* The manager's calls are told apart by what they transmitted: the        *)
(* record commands (start_record 404, stop_record 450) and any other       *)
(* request.                                                                *)
RecordCommands == {"StartRecord", "StopRecord"}
Kinds(reqs) == {IF q \in RecordCommands THEN q ELSE "Request" : q \in reqs}

(* what a pipeline step keeps of a source-manager operation *)
Outcome(r) == [ok |-> r.ok, reqs |-> Kinds(r.reqs)]

Range(s) == {s[i] : i \in 1..Len(s)}

(* s has the elements of sub in the order of sub (not necessarily adjacent) *)
RECURSIVE IsSubSeq(_, _)
IsSubSeq(sub, s) ==
    IF sub = <<>> THEN TRUE
    ELSE IF s = <<>> THEN FALSE
    ELSE IF Head(sub) = Head(s) THEN IsSubSeq(Tail(sub), Tail(s))
    ELSE IsSubSeq(sub, Tail(s))

NoCall == [op |-> "none"]

(***************************************************************************)
(* Frames on the socket (obs_websocket.py:238-270): op 7 is a response     *)
(* carrying the request id it answers, op 5 is an event.  The id           *)
(* "req_<n>" (106-108) is kept as n.                                       *)
(***************************************************************************)
OpEvent == 5
OpRequestResponse == 7
EventTypes == {"RecordStateChanged", "SceneItemCreated"}
RequestTypes == {"GetVersion", "StartRecord"}

ResponseFrame(id, ok) ==
    [op |-> OpRequestResponse, requestId |-> id, result |-> ok,
     eventType |-> None]
EventFrame(event_type) ==
    [op |-> OpEvent, requestId |-> 0, result |-> FALSE,
     eventType |-> event_type]
NoFrame == [op |-> -1, requestId |-> 0, result |-> FALSE, eventType |-> None]
(* text that json.loads (238) rejects: it has no fields to read *)
Unparsable == [op |-> -2, requestId |-> 0, result |-> FALSE,
               eventType |-> None]

(* OBSResponse, 40-48; request_id 0 is the empty id of line 210 *)
OBSResponse(ok, request_type, id, error_message) ==
    [success |-> ok, request_type |-> request_type, request_id |-> id,
     error_message |-> error_message]
NoResponse == OBSResponse(FALSE, None, 0, None)
NoRequest == [request_id |-> 0, request_type |-> None]

(* what one _handle_event did (83-100): the event type, the callbacks it  *)
(* called in order, those of them that raised, and whether an error left  *)
(* _handle_event                                                           *)
Dispatch(event_type, calls, raised, propagated) ==
    [event_type |-> event_type, calls |-> calls, raised |-> raised,
     propagated |-> propagated]
NoDispatch == Dispatch(None, <<>>, {}, FALSE)

(* bounds of SpecWS: requests written, frames unread, events per call *)
MaxRequests == 3
MaxWire == 2
MaxEvents == 2

(* SessionInfo, recording_manager.py:52-66 *)
SessionInfo(project_name, profile_name, scene_name) ==
    [project_name |-> project_name, profile_name |-> profile_name,
     scene_name |-> scene_name]

(* self._session = None *)
NoSession == SessionInfo(None, None, None)

(* The remote app as the source manager's requests find it: the profiles   *)
(* it has and the one in use, its scenes, its inputs (global sources) and  *)
(* the source names among the items of the scene DEFAULT_SCENE_NAME.       *)
RemoteApp(profiles, current, scenes, inputs, items) ==
    [profiles |-> profiles, currentProfileName |-> current,
     scenes |-> scenes, inputs |-> inputs, sceneItems |-> items]
FreshOBS == RemoteApp({}, None, {}, {}, {})

(* What a source-manager operation did: its return value, the request     *)
(* types it transmitted, whether the listing it read named the entity,     *)
(* the Response to its create request (None when none was made), and the   *)
(* names it expected and those it read; for the ISO setup also whether it  *)
(* raised, the video sources that got their filter, the audio sources it   *)
(* counts as configured and the track assignments it sent.                 *)
Operation(op, ok, reqs, listed, create, expected, actual) ==
    [op |-> op, rv |-> ok, reqs |-> reqs, listed |-> listed,
     create |-> create, expected |-> expected, actual |-> actual,
     raised |-> FALSE, video |-> {}, audio |-> {}, tracks |-> <<>>]
NoOp == Operation(None, FALSE, {}, FALSE, None, {}, {})

(* ProfileConfiguration, utils/config.py:22-28 *)
ProfileConfiguration(profile_name, displays, cameras, audio_inputs) ==
    [profile_name |-> profile_name, displays |-> displays,
     cameras |-> cameras, audio_inputs |-> audio_inputs]

(* no configuration loaded yet *)
NoProfile == ProfileConfiguration(None, <<>>, <<>>, <<>>)

(* what one _set_state did (109-117): the state it set, the callbacks it  *)
(* called in order, those of them that raised, and whether an error left  *)
(* _set_state                                                             *)
Notice(new_state, calls, raised, propagated) ==
    [state |-> new_state, calls |-> calls, raised |-> raised,
     propagated |-> propagated]
NoNotice == Notice(None, <<>>, {}, FALSE)

(* a call of connect(): where it is, its max_retries, how each attempt it *)
(* has made ended, what it returned                                       *)
NoConnect == [pc |-> "idle", max_retries |-> 0, tried |-> <<>>, rv |-> None]

(* no session, or no collection yet: a time no clock shows *)
NoTime == 0 - 1

Init ==
    /\ state = IDLE
    /\ session = NoSession
    /\ last_error = None
    /\ ws = None
    /\ source_manager = None
    /\ session_log = None
    /\ connected = FALSE
    /\ obs_running \in BOOLEAN
    /\ link_alive = FALSE
    /\ pc = [t \in Threads |-> "ready"]
    /\ call = [t \in Threads |-> NoCall]
    /\ rv = [t \in Threads |-> None]
    /\ sent = [t \in Threads |-> {}]
    /\ steps = [t \in Threads |-> <<>>]
    /\ record_resp = [t \in Threads |-> None]
    /\ iso_scene = [t \in Threads |-> None]
    /\ request_id = 0
    /\ handshakes = 0
    /\ connect_rv = None
    /\ event_callbacks = [event_type \in EventTypes |-> <<>>]
    /\ global_event_callbacks = <<>>
    /\ invoked = NoDispatch
    /\ wire = <<>>
    /\ outstanding = {}
    /\ arrived = <<>>
    /\ transmitted = <<>>
    /\ wpc = [t \in Threads |-> "idle"]
    /\ cur = [t \in Threads |-> NoRequest]
    /\ result = [t \in Threads |-> NoResponse]
    /\ answer = [t \in Threads |-> NoFrame]
    /\ events = [t \in Threads |-> <<>>]
    /\ dropped = [t \in Threads |-> {}]
    /\ since_sent = [t \in Threads |-> 0]
    /\ since_recv = [t \in Threads |-> 0]
    /\ obs = FreshOBS
    /\ accepting = TRUE
    /\ fault = None
    /\ profile_config = NoProfile
    /\ sm_pc = "idle"
    /\ sm_op = NoOp
    /\ cp_reqs = {}
    /\ todo = <<>>
    /\ attempts = 0
    /\ files = {}
    /\ session_folder = {}
    /\ start_time = NoTime
    /\ now = 0
    /\ cutoff = NoTime
    /\ retry = NoConnect
    /\ enumerated = FALSE
    /\ enum_cameras = <<>>
    /\ enum_audio = <<>>
    /\ input_settings = {}
    /\ settings_read = {}
    /\ fixes = {}
    /\ changes = 0
    /\ state_callbacks = <<>>
    /\ notified = NoNotice

(***************************************************************************)
(* OBSSourceManager (core/obs_source_manager.py).  Each operation is given *)
(* the Responses its requests receive and the facts those Responses carry, *)
(* and yields its return value and the request types it transmitted.       *)
(***************************************************************************)

(* ensure_profile_exists, 91-114 *)
ensure_profile_exists(list, listed, create) ==
    IF success(list) /\ listed
    THEN [ok |-> TRUE, reqs |-> Tx("GetProfileList", list)]
    ELSE [ok |-> success(create) \/ error_code(create) = ALREADY_EXISTS,
          reqs |-> Tx("GetProfileList", list) \cup Tx("CreateProfile", create)]

(* switch_to_profile, 125-151 *)
switch_to_profile(current, is_current, switch) ==
    IF success(current) /\ is_current
    THEN [ok |-> TRUE, reqs |-> Tx("GetProfileList", current)]
    ELSE [ok |-> success(switch),
          reqs |-> Tx("GetProfileList", current)
                   \cup Tx("SetCurrentProfile", switch)]

(* an ensure_scene_exists that takes every failed CreateScene for a        *)
(* failure                                                                 *)
ensure_scene_exists_strict(list, listed, create) ==
    IF success(list) /\ listed
    THEN [ok |-> TRUE, reqs |-> Tx("GetSceneList", list)]
    ELSE [ok |-> success(create),
          reqs |-> Tx("GetSceneList", list) \cup Tx("CreateScene", create)]

(* ensure_scene_exists, 167-187 *)
ensure_scene_exists(list, listed, create) ==
    IF success(list) /\ listed
    THEN [ok |-> TRUE, reqs |-> Tx("GetSceneList", list)]
    ELSE [ok |-> success(create) \/ error_code(create) = ALREADY_EXISTS,
          reqs |-> Tx("GetSceneList", list) \cup Tx("CreateScene", create)]

(* clear_scene, 199-234; configure_profile discards its result (732) *)
clear_scene(items, nonempty) ==
    [ok |-> success(items),
     reqs |-> Tx("GetSceneItemList", items)
              \cup (IF success(items) /\ nonempty
                    THEN Tx("RemoveSceneItem", items) ELSE {})]

(* _add_existing_source_to_scene, 416-432 *)
add_existing_source_to_scene(add) ==
    [ok |-> success(add) \/ error_code(add) = ALREADY_EXISTS,
     reqs |-> Tx("CreateSceneItem", add)]

(* create_display_capture, 248-279 *)
create_display_capture(create, add) ==
    IF success(create) THEN [ok |-> TRUE, reqs |-> Tx("CreateInput", create)]
    ELSE IF error_code(create) = ALREADY_EXISTS
    THEN [ok |-> add_existing_source_to_scene(add).ok,
          reqs |-> Tx("CreateInput", create)
                   \cup add_existing_source_to_scene(add).reqs]
    ELSE [ok |-> FALSE, reqs |-> Tx("CreateInput", create)]

(* create_camera_capture 281-343 and create_audio_capture 345-414: an      *)
(* input that exists already is attached to the scene and re-bound.        *)
create_device_capture(create, add) ==
    IF success(create) THEN [ok |-> TRUE, reqs |-> Tx("CreateInput", create)]
    ELSE IF error_code(create) = ALREADY_EXISTS
    THEN [ok |-> add_existing_source_to_scene(add).ok,
          reqs |-> Tx("CreateInput", create)
                   \cup add_existing_source_to_scene(add).reqs
                   \cup (IF add_existing_source_to_scene(add).ok
                         THEN Tx("SetInputSettings", add) ELSE {})]
    ELSE [ok |-> FALSE, reqs |-> Tx("CreateInput", create)]

(* check_if_profile_configured, 475-520: the scene is listed and no        *)
(* expected source is missing from the names get_scene_sources returned    *)
(* (has_all; a failed item query yields no names, 236-242).                *)
check_if_profile_configured(scenes, listed, items, has_all) ==
    IF ~(success(scenes) /\ listed)
    THEN [ok |-> FALSE, reqs |-> Tx("GetSceneList", scenes)]
    ELSE [ok |-> has_all,
          reqs |-> Tx("GetSceneList", scenes) \cup Tx("GetSceneItemList", items)]

(* verify_and_fix_input_settings, 522-620, for one camera and one          *)
(* microphone: a corrective SetInputSettings follows a readable binding    *)
(* that is wrong (camera) or empty (microphone).  configure_profile        *)
(* discards the result (712, 759).                                         *)
verify_and_fix_input_settings(cam, cam_wrong, mic, mic_empty) ==
    Tx("GetInputSettings", cam) \cup Tx("GetInputSettings", mic)
    \cup (IF (success(cam) /\ cam_wrong) \/ (success(mic) /\ mic_empty)
          THEN Tx("SetInputSettings", cam) ELSE {})

(* disable_iso_recording, 909-924 *)
disable_iso_recording(items, nonempty) ==
    [ok |-> success(items),
     reqs |-> Tx("GetSceneItemList", items)
              \cup (IF success(items) /\ nonempty
                    THEN Tx("RemoveSourceFilter", items) ELSE {})]

(***************************************************************************)
(* RecordingManager (core/recording_manager.py).  A call runs as a         *)
(* sequence of steps; a step is one pipeline stage with the requests it    *)
(* makes, and other threads' steps may fall between two steps of a call.   *)
(***************************************************************************)

(* No thread is between the end of its call and the caller's reading of   *)
(* the result (see returns below).                                         *)
Running == \A t \in Threads : pc[t] # "returned"

Append1(f, t, x) == [f EXCEPT ![t] = Append(@, x)]
Add(f, t, S) == [f EXCEPT ![t] = @ \cup S]

(* a guard that turns away only a running recording *)
start_accepts_unless_recording(s) == s # RECORDING

(* guard of start_recording, 307 *)
start_accepts(s) == s = IDLE

(* a guard that turns away only the idle manager *)
stop_accepts_unless_idle(s) == s # IDLE

(* guard of stop_recording, 436 *)
stop_accepts(s) == s = RECORDING

(* a failed step that is logged and passed over: the call goes on with the *)
(* step after it                                                           *)
start_failure_ignored(t) ==
    /\ pc' = [pc EXCEPT ![t] =
                CASE pc[t] = "s_folder" -> "s_launch"
                  [] pc[t] = "s_launch" -> "s_connect"
                  [] pc[t] = "s_connect" -> "s_ensure"
                  [] pc[t] = "s_ensure" -> "s_configure"
                  [] pc[t] \in {"s_configure", "s_check", "s_scene",
                                "s_sources"} -> "s_prepare"
                  [] pc[t] = "s_prepare" -> "s_iso"
                  [] OTHER -> "s_record"]
    /\ UNCHANGED <<last_error, state, session_log, rv>>

(* the except block of start_recording, 422-426 *)
start_failed(t) ==
    /\ last_error' = "Start recording failed"
    /\ state' = IDLE
    /\ session_log' = None
    /\ rv' = [rv EXCEPT ![t] = "False"]
    /\ pc' = [pc EXCEPT ![t] = "returned"]

(* a start step that goes on to the next one *)
start_goes_on(t, next) ==
    /\ pc' = [pc EXCEPT ![t] = next]
    /\ UNCHANGED <<last_error, state, session_log, rv>>

(* start_recording, 297-309: the guard reads self._state; a rejection      *)
(* returns at once.  No lock is held (the class has none), so the read     *)
(* here and the write at 311 are two steps of the thread.                  *)
start_recording(t) ==
    /\ Running
    /\ pc[t] = "ready"
    /\ sent' = [sent EXCEPT ![t] = {}]
    /\ steps' = [steps EXCEPT ![t] = <<>>]
    /\ record_resp' = [record_resp EXCEPT ![t] = None]
    /\ iso_scene' = [iso_scene EXCEPT ![t] = None]
    /\ \E click \in Clicks :
         call' = [call EXCEPT ![t] =
                    [op |-> "start", accepted |-> start_accepts(state),
                     seen |-> state, project_name |-> click.project_name,
                     profile_name |-> click.profile_name]]
    /\ IF start_accepts(state)
       THEN /\ rv' = [rv EXCEPT ![t] = None]
            /\ pc' = [pc EXCEPT ![t] = "s_enter"]
            /\ UNCHANGED last_error
       ELSE /\ last_error' = "Cannot start recording: not in idle state"
            /\ rv' = [rv EXCEPT ![t] = "False"]
            /\ pc' = [pc EXCEPT ![t] = "returned"]
    /\ UNCHANGED <<state, session, ws, source_manager, session_log, connected,
                   obs_running, link_alive, wsvars>>
    /\ UNCHANGED <<smvars, fsvars, othervars>>

(* _set_state(STARTING) without line 312: the last error stays *)
start_enter_keeps_error(t) ==
    /\ Running
    /\ pc[t] = "s_enter"
    /\ state' = STARTING
    /\ pc' = [pc EXCEPT ![t] = "s_folder"]
    /\ UNCHANGED <<session, last_error, ws, source_manager, session_log,
                   connected, obs_running, link_alive, call, rv, sent, steps,
                   record_resp, iso_scene, wsvars>>
    /\ UNCHANGED <<smvars, fsvars, othervars>>

(* 311-312: _set_state(STARTING), the last error is cleared *)
start_enter(t) ==
    /\ Running
    /\ pc[t] = "s_enter"
    /\ state' = STARTING
    /\ last_error' = None
    /\ pc' = [pc EXCEPT ![t] = "s_folder"]
    /\ UNCHANGED <<session, ws, source_manager, session_log, connected,
                   obs_running, link_alive, call, rv, sent, steps, record_resp,
                   iso_scene, wsvars>>
    /\ UNCHANGED <<smvars, fsvars, othervars>>

(* Step 1, 320-329: create_project_folder (236-260), set_session_log *)
create_project_folder(t) ==
    /\ Running
    /\ pc[t] = "s_folder"
    /\ \E created \in BOOLEAN :
         IF created
         THEN /\ steps' = Append1(steps, t, "project_folder")
              /\ session_log' = call[t].project_name
              /\ pc' = [pc EXCEPT ![t] = "s_launch"]
              /\ UNCHANGED <<last_error, state, rv>>
         ELSE /\ start_failed(t)
              /\ UNCHANGED steps
    /\ UNCHANGED <<session, ws, source_manager, connected, obs_running,
                   link_alive, call, sent, record_resp, iso_scene, wsvars>>
    /\ UNCHANGED <<smvars, fsvars, othervars>>

(* Step 2, 331-340: is_obs_running (124-132), launch_obs (134-184) *)
launch_obs(t) ==
    /\ Running
    /\ pc[t] = "s_launch"
    /\ IF obs_running
       THEN /\ start_goes_on(t, "s_connect")
            /\ UNCHANGED <<obs_running, steps>>
       ELSE \E appeared \in BOOLEAN :
              IF appeared
              THEN /\ obs_running' = TRUE
                   /\ steps' = Append1(steps, t, "launch_obs")
                   /\ start_goes_on(t, "s_connect")
              ELSE /\ start_failed(t)
                   /\ UNCHANGED <<obs_running, steps>>
    /\ UNCHANGED <<session, ws, source_manager, connected, link_alive, call,
                   sent, record_resp, iso_scene, wsvars>>
    /\ UNCHANGED <<smvars, fsvars, othervars>>

(* Step 3, 342-347: connect_to_obs (197-227).  A client that says it is    *)
(* connected is taken at its word; otherwise the handshake is attempted    *)
(* (it can complete only with the remote application running) and a        *)
(* GetVersion request follows it.                                          *)
connect_to_obs(t) ==
    /\ Running
    /\ pc[t] = "s_connect"
    /\ ws' = "OBSWebSocketSync"
    /\ IF ws # None /\ connected
       THEN /\ steps' = Append1(steps, t, "connect")
            /\ start_goes_on(t, "s_ensure")
            /\ UNCHANGED <<connected, link_alive, source_manager, sent>>
       ELSE \E handshake \in (IF obs_running THEN BOOLEAN ELSE {FALSE}) :
              IF handshake
              THEN /\ connected' = TRUE
                   /\ link_alive' = TRUE
                   /\ source_manager' = "OBSSourceManager"
                   /\ sent' = Add(sent, t, Kinds({"GetVersion"}))
                   /\ steps' = Append1(steps, t, "connect")
                   /\ start_goes_on(t, "s_ensure")
              ELSE /\ start_failed(t)
                   /\ UNCHANGED <<connected, link_alive, source_manager, sent,
                                  steps>>
    /\ UNCHANGED <<session, obs_running, call, record_resp, iso_scene, wsvars>>
    /\ UNCHANGED <<smvars, fsvars, othervars>>

(* Steps 4-5, 349-363: load the profile configuration,                     *)
(* ensure_profile_exists                                                   *)
ensure_profile(t) ==
    /\ Running
    /\ pc[t] = "s_ensure"
    /\ IF source_manager = None
       THEN /\ start_failed(t)
            /\ UNCHANGED <<sent, steps>>
       ELSE \E e \in {Outcome(ensure_profile_exists(list, listed, create)) :
                        list \in Responses(Answer), listed \in BOOLEAN,
                        create \in Responses(CreateAnswer)} :
              /\ sent' = Add(sent, t, e.reqs)
              /\ IF e.ok
                 THEN /\ steps' = Append1(steps, t, "ensure_profile_exists")
                      /\ start_goes_on(t, "s_configure")
                 ELSE /\ start_failed(t)
                      /\ UNCHANGED steps
    /\ UNCHANGED <<session, ws, source_manager, connected, obs_running,
                   link_alive, call, record_resp, iso_scene, wsvars>>
    /\ UNCHANGED <<smvars, fsvars, othervars>>

(* Step 6, 365-370: configure_profile (678-762), in four parts.            *)
(* 695-704: ensure the profile exists and switch to it                     *)
configure_profile_switch(t) ==
    /\ Running
    /\ pc[t] = "s_configure"
    /\ \E e \in {Outcome(ensure_profile_exists(list, listed, create)) :
                   list \in Responses(Answer), listed \in BOOLEAN,
                   create \in Responses(CreateAnswer)},
          w \in {Outcome(switch_to_profile(current, is_current, switch)) :
                   current \in Responses(Answer), is_current \in BOOLEAN,
                   switch \in Responses(Answer)} :
            IF ~e.ok
            THEN /\ sent' = Add(sent, t, e.reqs)
                 /\ start_failed(t)
            ELSE /\ sent' = Add(sent, t, e.reqs \cup w.reqs)
                 /\ IF w.ok
                    THEN start_goes_on(t, "s_check")
                    ELSE start_failed(t)
    /\ UNCHANGED <<session, ws, source_manager, connected, obs_running,
                   link_alive, call, steps, record_resp, iso_scene, wsvars>>
    /\ UNCHANGED <<smvars, fsvars, othervars>>

(* 706-716: the fast path when the scene has every expected source *)
configure_profile_check(t) ==
    /\ Running
    /\ pc[t] = "s_check"
    /\ \E c \in {Outcome(check_if_profile_configured(scenes, listed, items,
                                                       has_all)) :
                   scenes \in Responses(Answer), listed \in BOOLEAN,
                   items \in Responses(Answer), has_all \in BOOLEAN},
          fix \in {Kinds(verify_and_fix_input_settings(cam, cam_wrong, mic,
                                                       mic_empty)
                         \cup Tx("SetCurrentProgramScene", scene)) :
                   cam \in Responses(Answer), cam_wrong \in BOOLEAN,
                   mic \in Responses(Answer), mic_empty \in BOOLEAN,
                   scene \in Responses(Answer)} :
            IF c.ok
            THEN /\ sent' = Add(sent, t, c.reqs \cup fix)
                 /\ steps' = Append1(steps, t, "configure_profile")
                 /\ start_goes_on(t, "s_prepare")
            ELSE /\ sent' = Add(sent, t, c.reqs)
                 /\ start_goes_on(t, "s_scene")
                 /\ UNCHANGED steps
    /\ UNCHANGED <<session, ws, source_manager, connected, obs_running,
                   link_alive, call, record_resp, iso_scene, wsvars>>
    /\ UNCHANGED <<smvars, fsvars, othervars>>

(* 718-732: ensure the scene exists, make it current, clear it *)
configure_profile_scene(t) ==
    /\ Running
    /\ pc[t] = "s_scene"
    /\ \E e \in {Outcome(ensure_scene_exists(list, listed, create)) :
                   list \in Responses(Answer), listed \in BOOLEAN,
                   create \in Responses(CreateAnswer)},
          clear \in {Kinds(Tx("SetCurrentProgramScene", scene)
                           \cup clear_scene(items, nonempty).reqs) :
                     scene \in Responses(Answer), items \in Responses(Answer),
                     nonempty \in BOOLEAN} :
         IF ~e.ok
         THEN /\ sent' = Add(sent, t, e.reqs)
              /\ start_failed(t)
         ELSE /\ sent' = Add(sent, t, e.reqs \cup clear)
              /\ start_goes_on(t, "s_sources")
    /\ UNCHANGED <<session, ws, source_manager, connected, obs_running,
                   link_alive, call, steps, record_resp, iso_scene, wsvars>>
    /\ UNCHANGED <<smvars, fsvars, othervars>>

(* 734-762: create the display, camera and audio sources, verify the       *)
(* bindings; every result is discarded and the function returns True.      *)
(* One fallback Response and one settings Response stand for those of all  *)
(* sources: the requests transmitted are the same.                         *)
configure_profile_sources(t) ==
    /\ Running
    /\ pc[t] = "s_sources"
    /\ \E reqs \in {Kinds(create_display_capture(display, add).reqs
                           \cup create_device_capture(camera, add).reqs
                           \cup create_device_capture(audio, add).reqs
                           \cup verify_and_fix_input_settings(cam, cam_wrong,
                                                              cam, mic_empty)) :
                      display \in Responses(CreateAnswer),
                      camera \in Responses(CreateAnswer),
                      audio \in Responses(CreateAnswer),
                      add \in Responses(CreateAnswer),
                      cam \in Responses(Answer), cam_wrong \in BOOLEAN,
                      mic_empty \in BOOLEAN} :
         sent' = Add(sent, t, reqs)
    /\ steps' = Append1(steps, t, "configure_profile")
    /\ start_goes_on(t, "s_prepare")
    /\ UNCHANGED <<session, ws, source_manager, connected, obs_running,
                   link_alive, call, record_resp, iso_scene, wsvars>>
    /\ UNCHANGED <<smvars, fsvars, othervars>>

(* Steps 7-9, 372-392: verify_scene_sources (622-672) reads the scene      *)
(* items, the session directory is created (ensure_dir may raise), the     *)
(* record directory is set (a failure is only logged)                      *)
prepare_session(t) ==
    /\ Running
    /\ pc[t] = "s_prepare"
    /\ \E items \in Responses(Answer), created \in BOOLEAN, directory \in Responses(Answer) :
         IF created
         THEN /\ sent' = Add(sent, t, Kinds(Tx("GetSceneItemList", items)
                                            \cup Tx("SetRecordDirectory",
                                                    directory)))
              /\ steps' = Append1(steps, t, "session_dir")
              /\ start_goes_on(t, "s_iso")
         ELSE /\ sent' = Add(sent, t, Kinds(Tx("GetSceneItemList", items)))
              /\ start_failed(t)
              /\ UNCHANGED steps
    /\ UNCHANGED <<session, ws, source_manager, connected, obs_running,
                   link_alive, call, record_resp, iso_scene, wsvars>>
    /\ UNCHANGED <<smvars, fsvars, othervars>>

(* Step 10, 394-399: enable_iso_recording (820-907) on the scene.  Video   *)
(* sources get the filter when the plugin is installed (768-818); audio    *)
(* sources go to configure_audio_tracks (930-973), whose                   *)
(* self.ws.set_input_audio_tracks (958) is not a method of                 *)
(* OBSWebSocketSync (475-618): the call raises AttributeError, which the   *)
(* except block of start_recording catches.                                *)
enable_iso(t) ==
    /\ Running
    /\ pc[t] = "s_iso"
    /\ iso_scene' = [iso_scene EXCEPT ![t] = DEFAULT_SCENE_NAME]
    /\ \E items \in Responses(Answer), plugin_installed \in BOOLEAN,
          video_sources \in BOOLEAN, audio_sources \in BOOLEAN :
         IF ~success(items)
         THEN /\ sent' = Add(sent, t, Kinds(Tx("GetSceneItemList", items)))
              /\ steps' = Append1(steps, t, "enable_iso_recording")
              /\ start_goes_on(t, "s_record")
         ELSE /\ sent' = Add(sent, t,
                     Kinds(Tx("GetSceneItemList", items)
                           \cup (IF plugin_installed /\ video_sources
                                 THEN {"RemoveSourceFilter",
                                       "CreateSourceFilter"}
                                 ELSE {})))
              /\ IF audio_sources
                 THEN /\ start_failed(t)
                      /\ UNCHANGED steps
                 ELSE /\ steps' = Append1(steps, t, "enable_iso_recording")
                      /\ start_goes_on(t, "s_record")
    /\ UNCHANGED <<session, ws, source_manager, connected, obs_running,
                   link_alive, call, record_resp, wsvars>>
    /\ UNCHANGED <<smvars, fsvars, othervars>>

(* Step 11, 401-420: start_record, the SessionInfo, RECORDING *)
start_record(t) ==
    /\ Running
    /\ pc[t] = "s_record"
    /\ \E response \in Responses(RecordAnswer) :
         /\ sent' = Add(sent, t, Kinds(Tx("StartRecord", response)))
         /\ record_resp' = [record_resp EXCEPT ![t] = response]
         /\ IF success(response)
            THEN /\ session' = SessionInfo(call[t].project_name,
                                           call[t].profile_name,
                                           DEFAULT_SCENE_NAME)
                 /\ state' = RECORDING
                 /\ steps' = Append1(steps, t, "start_record")
                 /\ rv' = [rv EXCEPT ![t] = "True"]
                 /\ pc' = [pc EXCEPT ![t] = "returned"]
                 /\ UNCHANGED <<last_error, session_log>>
            ELSE /\ start_failed(t)
                 /\ UNCHANGED <<session, steps>>
    /\ UNCHANGED <<ws, source_manager, connected, obs_running, link_alive,
                   call, iso_scene, wsvars>>
    /\ UNCHANGED <<smvars, fsvars, othervars>>

(* a finally block that forgets self._session = None *)
stop_finally_keeps_session(t) ==
    /\ session' = session
    /\ state' = IDLE
    /\ session_log' = None
    /\ pc' = [pc EXCEPT ![t] = "returned"]

(* the finally block of stop_recording, 486-489 *)
stop_finally(t) ==
    /\ session' = NoSession
    /\ state' = IDLE
    /\ session_log' = None
    /\ pc' = [pc EXCEPT ![t] = "returned"]

(* the except block of stop_recording, 482-484, and the finally block *)
stop_failed(t) ==
    /\ last_error' = "Stop recording failed"
    /\ rv' = [rv EXCEPT ![t] = "False"]
    /\ stop_finally(t)

(* a stop step that goes on to the next one *)
stop_goes_on(t, next) ==
    /\ pc' = [pc EXCEPT ![t] = next]
    /\ UNCHANGED <<last_error, state, session, session_log, rv>>

(* stop_recording, 428-438: the guard reads self._state; a rejection       *)
(* returns at once.  As in start_recording the write at 440 is a later     *)
(* step.                                                                   *)
stop_recording(t) ==
    /\ Running
    /\ pc[t] = "ready"
    /\ sent' = [sent EXCEPT ![t] = {}]
    /\ steps' = [steps EXCEPT ![t] = <<>>]
    /\ record_resp' = [record_resp EXCEPT ![t] = None]
    /\ iso_scene' = [iso_scene EXCEPT ![t] = None]
    /\ call' = [call EXCEPT ![t] = [op |-> "stop",
                                    accepted |-> stop_accepts(state),
                                    seen |-> state]]
    /\ IF stop_accepts(state)
       THEN /\ rv' = [rv EXCEPT ![t] = None]
            /\ pc' = [pc EXCEPT ![t] = "p_enter"]
            /\ UNCHANGED last_error
       ELSE /\ last_error' = "Cannot stop recording: not recording"
            /\ rv' = [rv EXCEPT ![t] = "False"]
            /\ pc' = [pc EXCEPT ![t] = "returned"]
    /\ UNCHANGED <<state, session, ws, source_manager, session_log, connected,
                   obs_running, link_alive, wsvars>>
    /\ UNCHANGED <<smvars, fsvars, othervars>>

(* 440: _set_state(STOPPING) *)
stop_enter(t) ==
    /\ Running
    /\ pc[t] = "p_enter"
    /\ state' = STOPPING
    /\ pc' = [pc EXCEPT ![t] = "p_stop"]
    /\ UNCHANGED <<session, last_error, ws, source_manager, session_log,
                   connected, obs_running, link_alive, call, rv, sent, steps,
                   record_resp, iso_scene, wsvars>>
    /\ UNCHANGED <<smvars, fsvars, othervars>>

(* a stop_record step that raises on a failed Response, as step 11 of      *)
(* start_recording does (404-405)                                          *)
stop_record_strict(t) ==
    /\ Running
    /\ pc[t] = "p_stop"
    /\ IF ws = None
       THEN /\ stop_failed(t)
            /\ UNCHANGED <<sent, steps, record_resp>>
       ELSE \E response \in Responses(RecordAnswer) :
              /\ sent' = Add(sent, t, Kinds(Tx("StopRecord", response)))
              /\ record_resp' = [record_resp EXCEPT ![t] = response]
              /\ IF success(response)
                 THEN /\ steps' = Append1(steps, t, "stop_record")
                      /\ stop_goes_on(t, "p_iso")
                 ELSE /\ stop_failed(t)
                      /\ UNCHANGED steps
    /\ UNCHANGED <<ws, source_manager, connected, obs_running, link_alive,
                   call, iso_scene, wsvars>>
    /\ UNCHANGED <<smvars, fsvars, othervars>>

(* Steps 1-2, 448-456: stop_record; a failed Response is only logged.      *)
(* Without a client (self._ws is None) the call raises.                    *)
stop_record(t) ==
    /\ Running
    /\ pc[t] = "p_stop"
    /\ IF ws = None
       THEN /\ stop_failed(t)
            /\ UNCHANGED <<sent, steps, record_resp>>
       ELSE \E response \in Responses(RecordAnswer) :
              /\ sent' = Add(sent, t, Kinds(Tx("StopRecord", response)))
              /\ record_resp' = [record_resp EXCEPT ![t] = response]
              /\ steps' = Append1(steps, t, "stop_record")
              /\ stop_goes_on(t, "p_iso")
    /\ UNCHANGED <<ws, source_manager, connected, obs_running, link_alive,
                   call, iso_scene, wsvars>>
    /\ UNCHANGED <<smvars, fsvars, othervars>>

(* Step 3, 458-461: disable_iso_recording on the session's scene *)
disable_iso(t) ==
    /\ Running
    /\ pc[t] = "p_iso"
    /\ IF session = NoSession
       THEN /\ stop_goes_on(t, "p_collect")
            /\ UNCHANGED <<sent, steps, iso_scene>>
       ELSE IF source_manager = None
       THEN /\ stop_failed(t)
            /\ UNCHANGED <<sent, steps, iso_scene>>
       ELSE \E d \in {Outcome(disable_iso_recording(items, nonempty)) :
                        items \in Responses(Answer), nonempty \in BOOLEAN} :
              /\ sent' = Add(sent, t, d.reqs)
              /\ iso_scene' = [iso_scene EXCEPT ![t] = session.scene_name]
              /\ steps' = Append1(steps, t, "disable_iso_recording")
              /\ stop_goes_on(t, "p_collect")
    /\ UNCHANGED <<ws, source_manager, connected, obs_running, link_alive,
                   call, record_resp, wsvars>>
    /\ UNCHANGED <<smvars, fsvars, othervars>>

(* Step 4, 463-465: _collect_recordings (491-550); creating the session    *)
(* folder may raise                                                        *)
collect_recordings(t) ==
    /\ Running
    /\ pc[t] = "p_collect"
    /\ steps' = Append1(steps, t, "collect_recordings")
    /\ \E raised \in BOOLEAN :
         IF raised /\ session # NoSession
         THEN stop_failed(t)
         ELSE stop_goes_on(t, "p_transcribe")
    /\ UNCHANGED <<ws, source_manager, connected, obs_running, link_alive,
                   call, sent, record_resp, iso_scene, wsvars>>
    /\ UNCHANGED <<smvars, fsvars, othervars>>

(* Step 5 and the return, 467-489: _transcribe_recording (568-617) may     *)
(* raise outside its own try; otherwise the call returns True              *)
transcribe_recording(t) ==
    /\ Running
    /\ pc[t] = "p_transcribe"
    /\ steps' = Append1(steps, t, "transcribe_recording")
    /\ \E raised \in BOOLEAN :
         IF raised /\ session # NoSession
         THEN stop_failed(t)
         ELSE /\ rv' = [rv EXCEPT ![t] = "True"]
              /\ stop_finally(t)
              /\ UNCHANGED last_error
    /\ UNCHANGED <<ws, source_manager, connected, obs_running, link_alive,
                   call, sent, record_resp, iso_scene, wsvars>>
    /\ UNCHANGED <<smvars, fsvars, othervars>>

(* disconnect_from_obs, 229-234, called between calls (app.py:183-194):    *)
(* the socket is closed (OBSWebSocket.disconnect, 185-194) and the client  *)
(* instance dropped.  While self._ws is None the client's fields show what *)
(* __init__ (57-63) gives the next instance.                               *)
disconnect_from_obs ==
    /\ \A t \in Threads : pc[t] = "ready" /\ wpc[t] = "idle"
    /\ ws # None
    /\ ws' = None
    /\ source_manager' = None
    /\ connected' = FALSE
    /\ link_alive' = FALSE
    /\ request_id' = 0
    /\ handshakes' = 0
    /\ connect_rv' = None
    /\ event_callbacks' = [event_type \in EventTypes |-> <<>>]
    /\ global_event_callbacks' = <<>>
    /\ wire' = <<>>
    /\ outstanding' = {}
    /\ arrived' = <<>>
    /\ UNCHANGED <<state, session, last_error, session_log, obs_running, pc,
                   call, rv, sent, steps, record_resp, iso_scene, invoked,
                   transmitted, callvars>>
    /\ UNCHANGED <<smvars, fsvars, othervars>>

(* The remote application exits (its socket closes) or is started by hand. *)
obs_exits ==
    /\ Running
    /\ obs_running
    /\ obs_running' = FALSE
    /\ link_alive' = FALSE
    /\ UNCHANGED <<state, session, last_error, ws, source_manager,
                   session_log, connected, pc, call, rv, sent, steps,
                   record_resp, iso_scene, wsvars>>
    /\ UNCHANGED <<smvars, fsvars, othervars>>

obs_starts ==
    /\ Running
    /\ ~obs_running
    /\ obs_running' = TRUE
    /\ UNCHANGED <<state, session, last_error, ws, source_manager,
                   session_log, connected, link_alive, pc, call, rv, sent,
                   steps, record_resp, iso_scene, wsvars>>
    /\ UNCHANGED <<smvars, fsvars, othervars>>

(* The caller has its answer; the record of the call is dropped.  Nothing *)
(* of the program runs here, so the step is taken before any other.       *)
returns(t) ==
    /\ pc[t] = "returned"
    /\ pc' = [pc EXCEPT ![t] = "ready"]
    /\ call' = [call EXCEPT ![t] = NoCall]
    /\ rv' = [rv EXCEPT ![t] = None]
    /\ sent' = [sent EXCEPT ![t] = {}]
    /\ steps' = [steps EXCEPT ![t] = <<>>]
    /\ record_resp' = [record_resp EXCEPT ![t] = None]
    /\ iso_scene' = [iso_scene EXCEPT ![t] = None]
    /\ UNCHANGED <<state, session, last_error, ws, source_manager,
                   session_log, connected, obs_running, link_alive, wsvars>>
    /\ UNCHANGED <<smvars, fsvars, othervars>>

Next ==
    \/ \E t \in Threads : returns(t)
    \/ \E t \in Threads : start_recording(t)
    \/ \E t \in Threads : start_enter(t)
    \/ \E t \in Threads : create_project_folder(t)
    \/ \E t \in Threads : launch_obs(t)
    \/ \E t \in Threads : connect_to_obs(t)
    \/ \E t \in Threads : ensure_profile(t)
    \/ \E t \in Threads : configure_profile_switch(t)
    \/ \E t \in Threads : configure_profile_check(t)
    \/ \E t \in Threads : configure_profile_scene(t)
    \/ \E t \in Threads : configure_profile_sources(t)
    \/ \E t \in Threads : prepare_session(t)
    \/ \E t \in Threads : enable_iso(t)
    \/ \E t \in Threads : start_record(t)
    \/ \E t \in Threads : stop_recording(t)
    \/ \E t \in Threads : stop_enter(t)
    \/ \E t \in Threads : stop_record(t)
    \/ \E t \in Threads : disable_iso(t)
    \/ \E t \in Threads : collect_recordings(t)
    \/ \E t \in Threads : transcribe_recording(t)
    \/ disconnect_from_obs
    \/ obs_exits
    \/ obs_starts

Spec == Init /\ [][Next]_vars

(***************************************************************************)
(* OBSWebSocket (core/obs_websocket.py) as its callers drive it through    *)
(* OBSWebSocketSync: the server answers when it likes and pushes events in *)
(* between.                                                                *)
(***************************************************************************)

(* the thread that uses the client when only one does *)
MainThread == "worker1"

(* bounds: attempts of one connect() (max_retries, line 110), handshakes   *)
(* followed per connection, registrations followed, and the request        *)
(* timeout (line 200) in units of time                                     *)
MaxRetries == 2
MaxHandshakes == 2
MaxCallbacks == 3
Timeout == 2

(* a wait that has lasted longer than Timeout is not measured further *)
Overdue == Timeout + 1

Min(S) == CHOOSE x \in S : \A y \in S : x <= y

(* recording_manager.py:201-203: connect_to_obs makes the client *)
create_client ==
    /\ ws = None
    /\ ws' = "OBSWebSocketSync"
    /\ UNCHANGED <<state, session, last_error, source_manager, session_log,
                   connected, obs_running, link_alive, pc, call, rv, sent,
                   steps, record_resp, iso_scene, wsvars>>
    /\ UNCHANGED <<smvars, fsvars, othervars>>

(* How one attempt of connect() ends (123-171): the socket is refused or   *)
(* not opened in time; it opens and no Hello (op 0) comes; Identify is     *)
(* sent and no Identified (op 2) comes; the handshake completes.           *)
AttemptOutcomes == {"refused", "no_hello", "not_identified", "identified"}

(* the flag is raised as soon as the server has said Hello *)
attempt_connects_on_hello(outcome) ==
    outcome \in {"not_identified", "identified"}

(* 149-150: _connected = True only on Identified *)
attempt_connects(outcome) == outcome = "identified"

(* The loop 121-171 over the outcomes of its attempts: it returns True at  *)
(* the first completed handshake and False when none completes (172-183).  *)
(* opened: some attempt put a new socket in self._ws (124-127).            *)
connect_loop(outcomes) ==
    LET done == {i \in DOMAIN outcomes : outcomes[i] = "identified"}
        last == IF done = {} THEN Len(outcomes) ELSE Min(done)
    IN  [ok |-> done # {},
         opened |-> \E i \in 1..last : outcomes[i] # "refused",
         flag |-> \E i \in 1..last : attempt_connects(outcomes[i])]

(* connect, 110-183.  There is no test for a client that is connected      *)
(* already.  A completed handshake leaves the client on a fresh socket; an *)
(* attempt that opened a socket and did not complete leaves self._ws on a  *)
(* socket the server does not serve.                                       *)
connect ==
    /\ ws # None
    /\ \A t \in Threads : wpc[t] = "idle"
    /\ handshakes < MaxHandshakes
    /\ \E r \in {connect_loop(o) : o \in [1..MaxRetries -> AttemptOutcomes]} :
         /\ connect_rv' = (IF r.ok THEN "True" ELSE "False")
         /\ handshakes' = (IF r.ok THEN handshakes + 1 ELSE handshakes)
         /\ connected' = (connected \/ r.flag)
         /\ link_alive' = (IF r.opened THEN r.ok ELSE link_alive)
         /\ IF r.opened
            THEN wire' = <<>> /\ outstanding' = {} /\ arrived' = <<>>
            ELSE UNCHANGED <<wire, outstanding, arrived>>
    /\ UNCHANGED <<rmquiet, request_id, event_callbacks,
                   global_event_callbacks, invoked, transmitted, callvars>>
    /\ UNCHANGED <<smvars, fsvars, othervars>>

(* disconnect, 185-194 *)
disconnect ==
    /\ ws # None
    /\ \A t \in Threads : wpc[t] = "idle"
    /\ connected
    /\ connected' = FALSE
    /\ link_alive' = FALSE
    /\ handshakes' = 0
    /\ wire' = <<>>
    /\ outstanding' = {}
    /\ arrived' = <<>>
    /\ UNCHANGED <<rmquiet, request_id, connect_rv, event_callbacks,
                   global_event_callbacks, invoked, transmitted, callvars>>
    /\ UNCHANGED <<smvars, fsvars, othervars>>

(***************************************************************************)
(* The callbacks (65-100).                                                 *)
(***************************************************************************)
Callbacks == {"cb1", "cb2"}

Registrations ==
    Len(global_event_callbacks)
    + Cardinality(UNION {{<<e, i>> : i \in DOMAIN event_callbacks[e]} :
                         e \in EventTypes})

(* list.remove: the first occurrence goes; none is a ValueError (78-81) *)
RemoveFirst(s, x) ==
    LET at == {i \in DOMAIN s : s[i] = x} IN
    IF at = {} THEN s
    ELSE SubSeq(s, 1, Min(at) - 1) \o SubSeq(s, Min(at) + 1, Len(s))

(* add_event_callback, 65-69 *)
add_event_callback ==
    /\ ws # None
    /\ \A t \in Threads : wpc[t] = "idle"
    /\ Registrations < MaxCallbacks
    /\ \E event_type \in EventTypes, callback \in Callbacks :
         event_callbacks' =
             [event_callbacks EXCEPT ![event_type] = Append(@, callback)]
    /\ UNCHANGED <<rmvars, connected, request_id, handshakes, connect_rv,
                   global_event_callbacks, invoked, sockvars, callvars>>
    /\ UNCHANGED <<smvars, fsvars, othervars>>

(* add_global_event_callback, 71-73 *)
add_global_event_callback ==
    /\ ws # None
    /\ \A t \in Threads : wpc[t] = "idle"
    /\ Registrations < MaxCallbacks
    /\ \E callback \in Callbacks :
         global_event_callbacks' = Append(global_event_callbacks, callback)
    /\ UNCHANGED <<rmvars, connected, request_id, handshakes, connect_rv,
                   event_callbacks, invoked, sockvars, callvars>>
    /\ UNCHANGED <<smvars, fsvars, othervars>>

(* remove_event_callback, 75-81 *)
remove_event_callback ==
    /\ ws # None
    /\ \A t \in Threads : wpc[t] = "idle"
    /\ \E event_type \in EventTypes, callback \in Callbacks :
         event_callbacks' =
             [event_callbacks EXCEPT ![event_type] = RemoveFirst(@, callback)]
    /\ UNCHANGED <<rmvars, connected, request_id, handshakes, connect_rv,
                   global_event_callbacks, invoked, sockvars, callvars>>
    /\ UNCHANGED <<smvars, fsvars, othervars>>

(* the calls of a dispatch up to the first callback that raises *)
UpToFirstRaise(calls, raising) ==
    LET at == {i \in DOMAIN calls : calls[i] \in raising} IN
    IF at = {} THEN calls ELSE SubSeq(calls, 1, Min(at))

(* the global callbacks are called before those of the type *)
handle_event_global_first(event_type, typed, global, raising) ==
    LET calls == global \o typed[event_type] IN
    Dispatch(event_type, calls, Range(calls) \cap raising, FALSE)

(* no try around the call of a callback: the first error ends the dispatch *)
handle_event_unguarded(event_type, typed, global, raising) ==
    LET calls == typed[event_type] \o global
        made == UpToFirstRaise(calls, raising) IN
    Dispatch(event_type, made, Range(made) \cap raising, Range(made) \cap raising # {})

(* _handle_event, 83-100: the callbacks of the type in list order (88-94), *)
(* then the global ones in list order (96-100), each call in its own try,  *)
(* so that nothing is raised to the caller.  raising: the callbacks that   *)
(* raise when called with this event.                                      *)
handle_event(event_type, typed, global, raising) ==
    LET calls == typed[event_type] \o global IN
    Dispatch(event_type, calls, Range(calls) \cap raising, FALSE)

(***************************************************************************)
(* send_request (196-289) under OBSWebSocketSync._run (485-503).  The      *)
(* first thread to call runs the event loop (run_until_complete) until its *)
(* own call returns; the call of a thread that calls meanwhile is put on   *)
(* that loop (run_coroutine_threadsafe) and runs there beside the first.   *)
(* Each call reads the one socket in its own loop.                         *)
(***************************************************************************)

(* _next_request_id, 106-108 *)
next_request_id(n) == n + 1

(* the test of line 205 is left out *)
never_short_circuits(c) == FALSE

(* 205: if not self.connected *)
not_connected(c) == ~c

(* the id of the response frame is not looked at *)
is_any_response(frame, id) == frame.op = OpRequestResponse

(* lines 241-243: the frame is the answer to the request with this id *)
is_our_response(frame, id) ==
    frame.op = OpRequestResponse /\ frame.requestId = id

(* events are not told from the other frames *)
is_never_event(frame) == FALSE

(* line 265 *)
is_event(frame) == frame.op = OpEvent

EventsIn(frames) ==
    SelectSeq(frames, LAMBDA frame : frame.op = OpEvent)

EventTypesIn(frames) ==
    [i \in DOMAIN EventsIn(frames) |-> EventsIn(frames)[i].eventType]

Waiting(t) == wpc[t] = "waiting"

(* recv() (237) called while another call waits in recv() on the same      *)
(* socket: the socket has one reader, and the library raises in the call   *)
(* that comes second.                                                      *)
recv_refused(t) == \E d \in Threads \ {t} : Waiting(d)

(* The call of thread t ends with this Response, taken from this frame. *)
completes(t, response, frame) ==
    /\ wpc' = [wpc EXCEPT ![t] = "idle"]
    /\ result' = [result EXCEPT ![t] = response]
    /\ answer' = [answer EXCEPT ![t] = frame]
    /\ since_sent' = [since_sent EXCEPT ![t] = 0]
    /\ since_recv' = [since_recv EXCEPT ![t] = 0]

(* The errors the try block of send_request (228-270) can meet, all of    *)
(* them subclasses of Exception.                                          *)
Exception == {"TimeoutError", "ConnectionClosed", "JSONDecodeError"}

(* only the clause for the timeout is there *)
except_timeout_only(e) ==
    IF e = "TimeoutError" THEN "Request timed out" ELSE None

(* The except clauses 272-289: the error_message of the Response the      *)
(* clause that catches e returns, None if no clause catches it and it     *)
(* leaves send_request.                                                   *)
except_clause(e) ==
    IF e = "TimeoutError" THEN "Request timed out"
    ELSE IF e \in Exception THEN "exception"
    ELSE None

(* send_request, 196-233: the not-connected short-circuit (205-213);       *)
(* otherwise the id is allocated (215) and the request written (233; on a  *)
(* closed socket the write raises and 281-289 returns the failure), and    *)
(* the call enters its read loop (an error of the first recv() is caught   *)
(* at 281 as well).                                                        *)
send_request(t) ==
    /\ ws # None
    /\ wpc[t] = "idle"
    /\ \E request_type \in RequestTypes :
         IF not_connected(connected)
         THEN /\ result' = [result EXCEPT ![t] =
                     OBSResponse(FALSE, request_type, 0,
                                 "Not connected to OBS")]
              /\ answer' = [answer EXCEPT ![t] = NoFrame]
              /\ UNCHANGED <<request_id, sockvars, wpc, cur, events, dropped,
                             since_sent, since_recv>>
         ELSE /\ request_id < MaxRequests
              /\ Len(transmitted) < MaxRequests
              /\ request_id' = next_request_id(request_id)
              /\ cur' = [cur EXCEPT ![t] = [request_id |-> request_id',
                                            request_type |-> request_type]]
              /\ events' = [events EXCEPT ![t] = <<>>]
              /\ dropped' = [dropped EXCEPT ![t] = {}]
              /\ answer' = [answer EXCEPT ![t] = NoFrame]
              /\ since_sent' = [since_sent EXCEPT ![t] = 0]
              /\ since_recv' = [since_recv EXCEPT ![t] = 0]
              /\ arrived' = EventTypesIn(wire)
              /\ UNCHANGED wire
              /\ IF ~link_alive
                 THEN /\ result' = [result EXCEPT ![t] =
                             OBSResponse(FALSE, request_type, request_id',
                                         "exception")]
                      /\ UNCHANGED <<outstanding, transmitted, wpc>>
                 ELSE /\ transmitted' = Append(transmitted, request_id')
                      /\ outstanding' = outstanding \cup {request_id'}
                      /\ IF recv_refused(t)
                         THEN /\ result' = [result EXCEPT ![t] =
                                     OBSResponse(FALSE, request_type,
                                                 request_id', "exception")]
                              /\ UNCHANGED wpc
                         ELSE /\ result' = [result EXCEPT ![t] = NoResponse]
                              /\ wpc' = [wpc EXCEPT ![t] = "waiting"]
    /\ UNCHANGED <<rmquiet, connected, link_alive, handshakes, connect_rv,
                   event_callbacks, global_event_callbacks, invoked>>
    /\ UNCHANGED <<smvars, fsvars, othervars>>

(* One turn of the loop 236-270: read a frame; json.loads (238) raises on  *)
(* text it cannot parse, which 281-289 catch; return the frame if it is    *)
(* the answer (241-262); hand an event to _handle_event                    *)
(* (265-270) and go on; a response frame with another id matches neither   *)
(* test and is gone.  An error out of _handle_event would be caught at 281 *)
(* and end the call.  Each turn starts a new wait_for (237).               *)
recv(t) ==
    /\ wpc[t] = "waiting"
    /\ wire # <<>>
    /\ wire' = Tail(wire)
    /\ LET frame == Head(wire) IN
         IF frame = Unparsable
         THEN /\ LET message == except_clause("JSONDecodeError") IN
                   IF message = None
                   THEN /\ wpc' = [wpc EXCEPT ![t] = "raised"]
                        /\ answer' = [answer EXCEPT ![t] = frame]
                        /\ UNCHANGED <<result, since_sent, since_recv>>
                   ELSE completes(t, OBSResponse(FALSE, cur[t].request_type,
                                                 cur[t].request_id, message),
                                  frame)
              /\ UNCHANGED <<events, dropped, invoked>>
         ELSE IF is_our_response(frame, cur[t].request_id)
         THEN /\ completes(t, OBSResponse(frame.result, cur[t].request_type,
                                          cur[t].request_id,
                                          IF frame.result THEN None
                                          ELSE "comment"), frame)
              /\ UNCHANGED <<events, dropped, invoked>>
         ELSE IF is_event(frame)
         THEN \E raising \in SUBSET Range(event_callbacks[frame.eventType]
                                          \o global_event_callbacks) :
                LET done == handle_event(frame.eventType, event_callbacks,
                                         global_event_callbacks, raising) IN
                /\ invoked' = done
                /\ events' = [events EXCEPT ![t] = Append(@, frame.eventType)]
                /\ IF done.propagated
                   THEN completes(t, OBSResponse(FALSE, cur[t].request_type,
                                                 cur[t].request_id,
                                                 "exception"), NoFrame)
                   ELSE /\ since_recv' = [since_recv EXCEPT ![t] = 0]
                        /\ UNCHANGED <<result, answer, wpc, since_sent>>
                /\ UNCHANGED dropped
         ELSE /\ dropped' = [dropped EXCEPT ![t] = @ \cup {frame.requestId}]
              /\ since_recv' = [since_recv EXCEPT ![t] = 0]
              /\ UNCHANGED <<result, answer, wpc, events, invoked,
                             since_sent>>
    /\ UNCHANGED <<rmquiet, connected, link_alive, request_id, handshakes,
                   connect_rv, event_callbacks, global_event_callbacks, cur,
                   outstanding, arrived, transmitted>>
    /\ UNCHANGED <<smvars, fsvars, othervars>>

(* 272-280: the wait_for around this recv() ran out *)
recv_timeout(t) ==
    /\ wpc[t] = "waiting"
    /\ wire = <<>>
    /\ link_alive
    /\ since_recv[t] = Timeout
    /\ completes(t, OBSResponse(FALSE, cur[t].request_type,
                                cur[t].request_id, "Request timed out"),
                 NoFrame)
    /\ UNCHANGED <<rmquiet, connected, link_alive, clientvars, sockvars, cur,
                   events, dropped>>
    /\ UNCHANGED <<smvars, fsvars, othervars>>

(* 281-289: recv raises on a closed socket; _connected stays as it was *)
recv_error(t) ==
    /\ wpc[t] = "waiting"
    /\ wire = <<>>
    /\ ~link_alive
    /\ completes(t, OBSResponse(FALSE, cur[t].request_type,
                                cur[t].request_id, "exception"), NoFrame)
    /\ UNCHANGED <<rmquiet, connected, link_alive, clientvars, sockvars, cur,
                   events, dropped>>
    /\ UNCHANGED <<smvars, fsvars, othervars>>

(* the timer of some call is about to fire *)
TimerDue == \E t \in Threads : Waiting(t) /\ since_recv[t] = Timeout

(* A unit of time passes while the calls wait for a frame. *)
tick ==
    /\ \E t \in Threads : Waiting(t)
    /\ link_alive
    /\ wire = <<>>
    /\ ~TimerDue
    /\ since_recv' = [t \in Threads |->
                        IF Waiting(t) THEN since_recv[t] + 1
                        ELSE since_recv[t]]
    /\ since_sent' = [t \in Threads |->
                        IF Waiting(t) /\ since_sent[t] < Overdue
                        THEN since_sent[t] + 1 ELSE since_sent[t]]
    /\ UNCHANGED <<rmquiet, connected, link_alive, clientvars, sockvars,
                   wpc, cur, result, answer, events, dropped>>
    /\ UNCHANGED <<smvars, fsvars, othervars>>

(* The server answers a request it has read, at any later time. *)
server_responds ==
    /\ link_alive
    /\ ~TimerDue
    /\ Len(wire) < MaxWire
    /\ \E id \in outstanding, ok \in BOOLEAN :
         /\ wire' = Append(wire, ResponseFrame(id, ok))
         /\ outstanding' = outstanding \ {id}
    /\ UNCHANGED <<rmquiet, connected, link_alive, clientvars, arrived,
                   transmitted, callvars>>
    /\ UNCHANGED <<smvars, fsvars, othervars>>

(* The server pushes an event. *)
server_event ==
    /\ link_alive
    /\ ~TimerDue
    /\ Len(wire) < MaxWire
    /\ Len(arrived) < MaxEvents
    /\ \E event_type \in EventTypes :
         /\ wire' = Append(wire, EventFrame(event_type))
         /\ arrived' = Append(arrived, event_type)
    /\ UNCHANGED <<rmquiet, connected, link_alive, clientvars, outstanding,
                   transmitted, callvars>>
    /\ UNCHANGED <<smvars, fsvars, othervars>>

(* The server, or what stands in for it, sends text that is no JSON. *)
server_garbles ==
    /\ link_alive
    /\ ~TimerDue
    /\ Len(wire) < MaxWire
    /\ wire' = Append(wire, Unparsable)
    /\ UNCHANGED <<rmquiet, connected, link_alive, clientvars, outstanding,
                   arrived, transmitted, callvars>>
    /\ UNCHANGED <<smvars, fsvars, othervars>>

(* The server closes the socket; what it has not answered stays so. *)
server_closes ==
    /\ link_alive
    /\ link_alive' = FALSE
    /\ outstanding' = {}
    /\ UNCHANGED <<rmquiet, connected, clientvars, wire, arrived, transmitted,
                   callvars>>
    /\ UNCHANGED <<smvars, fsvars, othervars>>

(* the remote application is up when the client is first used *)
InitWS == Init /\ obs_running

(* One thread uses one client: requests, events, and the ways the          *)
(* connection ends.                                                        *)
NextWS ==
    \/ create_client
    \/ connect
    \/ disconnect
    \/ send_request(MainThread)
    \/ recv(MainThread)
    \/ recv_timeout(MainThread)
    \/ recv_error(MainThread)
    \/ tick
    \/ server_responds
    \/ server_event
    \/ server_closes

SpecWS == InitWS /\ [][NextWS]_vars

(* The same, with a peer that may also send text that is no JSON. *)
NextGarbled ==
    \/ NextWS
    \/ server_garbles

SpecGarbled == InitWS /\ [][NextGarbled]_vars

(* One thread uses the clients the manager makes and drops: connections    *)
(* made, ended and made again, with the requests sent between.             *)
NextConn ==
    \/ create_client
    \/ connect
    \/ disconnect
    \/ disconnect_from_obs
    \/ send_request(MainThread)
    \/ recv(MainThread)
    \/ recv_timeout(MainThread)
    \/ recv_error(MainThread)
    \/ tick
    \/ server_responds
    \/ server_closes

SpecConn == InitWS /\ [][NextConn]_vars

(* Two threads call send_request on one connection. *)
NextCC ==
    \/ create_client
    \/ connect
    \/ \E t \in Threads : send_request(t)
    \/ \E t \in Threads : recv(t)
    \/ \E t \in Threads : recv_timeout(t)
    \/ tick
    \/ server_responds

SpecCC == InitWS /\ [][NextCC]_vars

(* the client has not sent a request yet *)
Unused == request_id = 0

(* the first request of a client *)
first_request == Unused /\ send_request(MainThread)

(* One thread registers and removes callbacks on a client, then sends its  *)
(* first request; the server pushes events before it answers.              *)
NextEv ==
    \/ create_client
    \/ connect
    \/ (Unused /\ add_event_callback)
    \/ (Unused /\ add_global_event_callback)
    \/ (Unused /\ remove_event_callback)
    \/ first_request
    \/ recv(MainThread)
    \/ recv_timeout(MainThread)
    \/ tick
    \/ server_responds
    \/ server_event

SpecEv == InitWS /\ [][NextEv]_vars

(***************************************************************************)
(* Steps 4 to 11 of start_recording (recording_manager.py:350-426) as one  *)
(* caller runs them against the remote app: the requests of the source     *)
(* manager and what they leave in the remote app.                          *)
(***************************************************************************)

(* calls of start_recording in one run *)
MaxAttempts == 2

(* The default single-camera profile (utils/config.py:133-139), a screen   *)
(* recording with a line input, and a camera alone.                        *)
ProfileConfigs ==
    {ProfileConfiguration("PC-Single", <<"Display 1">>, <<"Camera 1">>,
                          <<"Microphone">>),
     ProfileConfiguration("Screen", <<"Display 1">>, <<>>, <<"Line In">>),
     ProfileConfiguration("Camera", <<>>, <<"Camera 1">>, <<>>)}

(* a source the user has put into the scene by hand *)
ExtraSources == {"Overlay"}

(* what the manager's fields and the client keep while the source manager  *)
(* works                                                                   *)
smquiet == <<session, last_error, ws, source_manager, session_log,
             obs_running, link_alive, pc, call, rv, sent, steps,
             record_resp, iso_scene, connected, wsvars, fsvars, othervars>>

(* A request the remote app would answer with truth is answered so; while *)
(* the remote app is not answering every request it may instead fail with  *)
(* another code or time out (272-280) and leave the remote app as it was;  *)
(* on a client that is not connected no request is sent (205-213).         *)
Faults == {"rejected", "timeout", "not_connected"}
Replies(truth) ==
    IF accepting THEN {truth}
    ELSE IF fault = "not_connected" THEN {fault}
    ELSE {truth, fault}

(* the names a listing request returned: none when it failed (80-82,       *)
(* 159-162, 236-242)                                                       *)
listing(response, names) == IF success(response) THEN names ELSE {}

(* f"Display {idx + 1}", 500 and 737 *)
display_source_name(idx) == "Display " \o ToString(idx + 1)

(* expected sources without the microphones *)
expected_sources_without_audio(config) ==
    {display_source_name(idx) : idx \in 0..(Len(config.displays) - 1)}
    \cup Range(config.cameras)

(* the expected source names, 498-502 *)
expected_sources(config) ==
    {display_source_name(idx) : idx \in 0..(Len(config.displays) - 1)}
    \cup Range(config.cameras) \cup Range(config.audio_inputs)

(* a comparison that counts a source nobody expected as a difference *)
differing_sources(expected, actual) ==
    (expected \ actual) \cup (actual \ expected)

(* missing = expected_sources - actual_sources, 507 *)
missing_sources(expected, actual) == expected \ actual

(* start_recording's except block, 422-426, or the next step *)
sm_goes_on(ok, next) ==
    IF ok
    THEN sm_pc' = next /\ UNCHANGED state
    ELSE sm_pc' = "idle" /\ state' = IDLE

(* 308-315 and step 4, 350-357: the call is accepted and the profile's     *)
(* configuration loaded; a later call uses the same profile.               *)
get_profile ==
    /\ sm_pc = "idle"
    /\ state = IDLE
    /\ attempts < MaxAttempts
    /\ \E config \in ProfileConfigs :
         /\ profile_config \in {NoProfile, config}
         /\ profile_config' = config
    /\ state' = STARTING
    /\ attempts' = attempts + 1
    /\ sm_pc' = "ensure_profile"
    /\ sm_op' = NoOp
    /\ cp_reqs' = {}
    /\ todo' = <<>>
    /\ UNCHANGED <<obs, accepting, fault, smquiet>>

(* ensure_profile_exists (91-114) against the remote app: CreateProfile    *)
(* makes the profile and switches to it.                                   *)
run_ensure_profile_exists(next) ==
    LET name == profile_config.profile_name
        exists == name \in obs.profiles
    IN \E list \in Replies("ok"),
          create \in Replies(IF exists THEN "exists" ELSE "ok") :
         LET r == ensure_profile_exists(list, exists, create)
             listed == success(list) /\ exists
         IN /\ obs' = IF ~listed /\ success(create)
                      THEN [obs EXCEPT !.profiles = @ \cup {name},
                                       !.currentProfileName = name]
                      ELSE obs
            /\ sm_op' = Operation("ensure_profile_exists", r.ok, r.reqs,
                                  listed, IF listed THEN None ELSE create,
                                  {name}, listing(list, obs.profiles))
            /\ cp_reqs' = IF sm_pc = "cp_profile" THEN cp_reqs \cup r.reqs
                          ELSE cp_reqs
            /\ sm_goes_on(r.ok, next)

(* step 5, 359-363 *)
step_ensure_profile ==
    /\ sm_pc = "ensure_profile"
    /\ run_ensure_profile_exists("cp_profile")
    /\ UNCHANGED <<accepting, fault, profile_config, todo, attempts, smquiet>>

(* configure_profile step 1, 695-699 *)
cp_profile ==
    /\ sm_pc = "cp_profile"
    /\ run_ensure_profile_exists("cp_switch")
    /\ UNCHANGED <<accepting, fault, profile_config, todo, attempts, smquiet>>

(* configure_profile step 1, 701-704: switch_to_profile (125-151) *)
cp_switch ==
    /\ sm_pc = "cp_switch"
    /\ LET name == profile_config.profile_name
       IN \E current \in Replies("ok"),
             switch \in Replies(IF name \in obs.profiles THEN "ok"
                                ELSE "rejected") :
            LET is_current == obs.currentProfileName = name
                r == switch_to_profile(current, is_current, switch)
            IN /\ obs' = IF ~(success(current) /\ is_current)
                            /\ success(switch)
                         THEN [obs EXCEPT !.currentProfileName = name]
                         ELSE obs
               /\ sm_op' = Operation("switch_to_profile", r.ok, r.reqs,
                                     success(current) /\ is_current, None,
                                     {name}, {})
               /\ cp_reqs' = cp_reqs \cup r.reqs
               /\ sm_goes_on(r.ok, "cp_check")
    /\ UNCHANGED <<accepting, fault, profile_config, todo, attempts, smquiet>>

(* the sources configure_profile creates, in the order of steps 6 to 8     *)
(* (734-756)                                                               *)
sources_to_create(config) ==
    [idx \in 1..Len(config.displays) |-> display_source_name(idx - 1)]
    \o config.cameras \o config.audio_inputs

(* configure_profile step 2, 706-716: check_if_profile_configured          *)
(* (475-520); when it holds, verify_and_fix_input_settings, the scene made *)
(* current, and True.                                                      *)
cp_check ==
    /\ sm_pc = "cp_check"
    /\ LET scene_exists == DEFAULT_SCENE_NAME \in obs.scenes
           expected == expected_sources(profile_config)
       IN \E scenes \in Replies("ok"),
             items \in Replies(IF scene_exists THEN "ok" ELSE "rejected"),
             settings \in Replies("ok"), wrong \in BOOLEAN,
             scene \in Replies("ok") :
            LET actual == listing(items, obs.sceneItems)
                r == check_if_profile_configured(
                         scenes, scene_exists, items,
                         missing_sources(expected, actual) = {})
                fix == verify_and_fix_input_settings(settings, wrong,
                                                     settings, wrong)
                       \cup Tx("SetCurrentProgramScene", scene)
            IN /\ sm_op' = Operation("check_if_profile_configured", r.ok,
                                     r.reqs, success(scenes) /\ scene_exists,
                                     None, expected,
                                     IF success(scenes) /\ scene_exists
                                     THEN actual ELSE {})
               /\ cp_reqs' = cp_reqs \cup r.reqs
                             \cup (IF r.ok THEN fix ELSE {})
               /\ sm_pc' = IF r.ok THEN "cp_done" ELSE "cp_scene"
    /\ UNCHANGED <<state, obs, accepting, fault, profile_config, todo, attempts,
                   smquiet>>

(* configure_profile steps 3 and 4, 718-728: ensure_scene_exists           *)
(* (167-187), then the scene made current, its result unread.              *)
cp_scene ==
    /\ sm_pc = "cp_scene"
    /\ LET exists == DEFAULT_SCENE_NAME \in obs.scenes
       IN \E list \in Replies("ok"),
             create \in Replies(IF exists THEN "exists" ELSE "ok"),
             scene \in Replies("ok") :
            LET r == ensure_scene_exists(list, exists, create)
                listed == success(list) /\ exists
            IN /\ obs' = IF ~listed /\ success(create)
                         THEN [obs EXCEPT !.scenes = @ \cup
                                              {DEFAULT_SCENE_NAME}]
                         ELSE obs
               /\ sm_op' = Operation("ensure_scene_exists", r.ok, r.reqs,
                                     listed, IF listed THEN None ELSE create,
                                     {DEFAULT_SCENE_NAME},
                                     listing(list, obs.scenes))
               /\ cp_reqs' = cp_reqs \cup r.reqs
                             \cup (IF r.ok
                                   THEN Tx("SetCurrentProgramScene", scene)
                                   ELSE {})
               /\ sm_goes_on(r.ok, "cp_clear")
    /\ UNCHANGED <<accepting, fault, profile_config, todo, attempts, smquiet>>

(* configure_profile step 5, 730-732: clear_scene (199-234), its result    *)
(* unread.  An item whose removal fails stays (kept); the input of a       *)
(* removed item is gone with its last item or is still there.              *)
cp_clear ==
    /\ sm_pc = "cp_clear"
    /\ LET scene_exists == DEFAULT_SCENE_NAME \in obs.scenes
       IN \E items \in Replies(IF scene_exists THEN "ok" ELSE "rejected"),
             kept \in (IF accepting THEN {{}} ELSE SUBSET obs.sceneItems),
             released \in BOOLEAN :
            LET r == clear_scene(items, obs.sceneItems # {})
                removed == obs.sceneItems \ kept
            IN /\ ~success(items) => kept = obs.sceneItems
               /\ removed = {} => ~released
               /\ obs' = [obs EXCEPT !.sceneItems = kept,
                                     !.inputs = IF released THEN @ \ removed
                                                ELSE @]
               /\ sm_op' = Operation("clear_scene", r.ok, r.reqs,
                                     success(items), None, {},
                                     listing(items, obs.sceneItems))
               /\ cp_reqs' = cp_reqs \cup r.reqs
    /\ todo' = sources_to_create(profile_config)
    /\ sm_pc' = "cp_create"
    /\ UNCHANGED <<state, accepting, fault, profile_config, attempts, smquiet>>

(* configure_profile steps 6 to 8, 734-756, one source: a display capture  *)
(* (248-279), a camera (281-343) or an audio capture (345-414), the result *)
(* unread.  CreateInput makes the input with an item in the scene; an      *)
(* input of that name is answered 601 and CreateSceneItem (416-432)        *)
(* attaches it.                                                            *)
cp_create ==
    /\ sm_pc = "cp_create"
    /\ todo # <<>>
    /\ LET source_name == Head(todo)
           scene_exists == DEFAULT_SCENE_NAME \in obs.scenes
           exists == source_name \in obs.inputs
           is_display == source_name \in
                           {display_source_name(idx) :
                              idx \in 0..(Len(profile_config.displays) - 1)}
       IN \E create \in Replies(IF ~scene_exists THEN "rejected"
                                ELSE IF exists THEN "exists" ELSE "ok"),
             add \in Replies(IF scene_exists /\ exists THEN "ok"
                             ELSE "rejected") :
            LET r == IF is_display THEN create_display_capture(create, add)
                     ELSE create_device_capture(create, add)
                attached == error_code(create) = ALREADY_EXISTS
                            /\ success(add)
            IN /\ obs' = IF success(create)
                         THEN [obs EXCEPT !.inputs = @ \cup {source_name},
                                          !.sceneItems = @ \cup {source_name}]
                         ELSE IF attached
                         THEN [obs EXCEPT !.sceneItems = @ \cup {source_name}]
                         ELSE obs
               /\ sm_op' = Operation(IF is_display
                                     THEN "create_display_capture"
                                     ELSE "create_device_capture",
                                     r.ok, r.reqs, FALSE, create,
                                     {source_name}, {})
               /\ cp_reqs' = cp_reqs \cup r.reqs
    /\ todo' = Tail(todo)
    /\ UNCHANGED <<state, accepting, fault, profile_config, sm_pc, attempts, smquiet>>

(* configure_profile step 9, 758-762: verify_and_fix_input_settings and    *)
(* True                                                                    *)
cp_verify ==
    /\ sm_pc = "cp_create"
    /\ todo = <<>>
    /\ \E settings \in Replies("ok"), wrong \in BOOLEAN :
         cp_reqs' = cp_reqs \cup verify_and_fix_input_settings(
                                     settings, wrong, settings, wrong)
    /\ sm_pc' = "cp_done"
    /\ UNCHANGED <<state, obs, accepting, fault, profile_config, sm_op, todo,
                   attempts, smquiet>>

(* configure_profile returns True (716, 762) to step 6 of start_recording  *)
(* (365-370): the sources it expected, those in the scene now, and whether *)
(* it took the fast path.                                                  *)
cp_returns ==
    /\ sm_pc = "cp_done"
    /\ sm_op' = Operation("configure_profile", TRUE, cp_reqs,
                          sm_op.op = "check_if_profile_configured", None,
                          expected_sources(profile_config), obs.sceneItems)
    /\ sm_pc' = "enable_iso"
    /\ UNCHANGED <<state, obs, accepting, fault, profile_config, cp_reqs, todo,
                   attempts, smquiet>>

(* the track model of configure_audio_tracks: audio_sources[:6] (949) and  *)
(* range(1, 7) (953)                                                       *)
AUDIO_TRACKS == 6

(* str.lower() on the letters A to Z *)
UPPERCASE == "ABCDEFGHIJKLMNOPQRSTUVWXYZ"
LOWERCASE == "abcdefghijklmnopqrstuvwxyz"
lower_char(c) ==
    IF \E i \in 1..Len(UPPERCASE) : SubSeq(UPPERCASE, i, i) = c
    THEN LET i == CHOOSE i \in 1..Len(UPPERCASE) : SubSeq(UPPERCASE, i, i) = c
         IN SubSeq(LOWERCASE, i, i)
    ELSE c
RECURSIVE lower(_)
lower(s) ==
    IF Len(s) = 0 THEN s
    ELSE lower_char(SubSeq(s, 1, 1)) \o lower(SubSeq(s, 2, Len(s)))

startswith(s, prefix) ==
    Len(s) >= Len(prefix) /\ SubSeq(s, 1, Len(prefix)) = prefix

(* an audio-only source by its name, 859 *)
is_audio_source(source_name) ==
    startswith(lower(source_name), "mic") \/ lower(source_name) = "microphone"

(* the methods of OBSWebSocketSync, obs_websocket.py:475-618 *)
OBSWebSocketSyncMethods ==
    {"connected", "add_event_callback", "add_global_event_callback",
     "remove_event_callback", "connect", "disconnect", "send_request",
     "get_profile_list", "get_current_profile", "set_current_profile",
     "create_profile", "get_scene_list", "get_current_program_scene",
     "set_current_program_scene", "create_scene", "get_scene_item_list",
     "remove_scene_item", "get_input_list", "get_input_kind_list",
     "create_input", "get_input_settings", "set_input_settings",
     "get_source_filter_list", "create_source_filter",
     "set_source_filter_settings", "remove_source_filter",
     "get_record_status", "start_record", "stop_record", "toggle_record",
     "set_record_directory", "get_version", "is_recording"}

(* track_config of the source at 0-based index idx, 952-955 *)
track_config(idx) == [t \in 1..AUDIO_TRACKS |-> t = idx + 1]

(* configure_audio_tracks, 930-973.  assigned is the set of sources whose  *)
(* SetInputAudioTracks request the remote app would acknowledge.  The loop *)
(* body looks up self.ws.set_input_audio_tracks (958); an attribute the    *)
(* client does not have raises AttributeError on the first source.         *)
configure_audio_tracks(audio_sources, assigned) ==
    LET first == SubSeq(audio_sources, 1,
                        Min({Len(audio_sources), AUDIO_TRACKS}))
    IN IF first = <<>>
       THEN [raised |-> FALSE, ok |-> FALSE, tracks |-> <<>>,
             configured |-> {}]
       ELSE IF "set_input_audio_tracks" \notin OBSWebSocketSyncMethods
       THEN [raised |-> TRUE, ok |-> FALSE, tracks |-> <<>>,
             configured |-> {}]
       ELSE [raised |-> FALSE,
             ok |-> Range(first) \cap assigned # {},
             tracks |-> [i \in 1..Len(first) |->
                           [source |-> first[i],
                            track_config |-> track_config(i - 1)]],
             configured |-> Range(first) \cap assigned]

(* the scene's items in the order the remote app lists them *)
SceneOrder == <<"Display 1", "Camera 1", "Microphone", "Line In", "Overlay">>

(* the names among them that 855-862 take for audio-only sources *)
audio_only == {n \in Range(SceneOrder) : is_audio_source(n)}

(* add_iso_recording_filter, 768-818: the old filter removed, the new one  *)
(* created                                                                 *)
add_iso_recording_filter(plugin_installed, create) ==
    IF ~plugin_installed THEN [ok |-> FALSE, reqs |-> {}]
    ELSE [ok |-> success(create),
          reqs |-> Tx("RemoveSourceFilter", create)
                   \cup Tx("CreateSourceFilter", create)]

(* enable_iso_recording, 820-907.  names are the scene's items in order,   *)
(* filtered the video sources whose CreateSourceFilter the remote app      *)
(* would acknowledge, assigned the audio sources whose track assignment it *)
(* would acknowledge.                                                      *)
enable_iso_recording(items, names, plugin_installed, filtered, assigned) ==
    IF ~success(items)
    THEN [raised |-> FALSE, ok |-> FALSE, video |-> {}, audio |-> {},
          tracks |-> <<>>, reqs |-> Tx("GetSceneItemList", items)]
    ELSE LET audio_sources == SelectSeq(names, LAMBDA n : n \in audio_only)
             video_sources == SelectSeq(names, LAMBDA n : n \notin audio_only)
             video == IF plugin_installed
                      THEN {n \in Range(video_sources) :
                              add_iso_recording_filter(
                                  plugin_installed,
                                  IF n \in filtered THEN "ok"
                                  ELSE "rejected").ok}
                      ELSE {}
             tracks == configure_audio_tracks(audio_sources, assigned)
             audio == IF tracks.ok THEN Range(audio_sources) ELSE {}
         IN [raised |-> tracks.raised,
             ok |-> ~tracks.raised /\ (video # {} \/ audio # {}),
             video |-> video, audio |-> audio, tracks |-> tracks.tracks,
             reqs |-> Tx("GetSceneItemList", items)
                      \cup (IF plugin_installed /\ video_sources # <<>>
                            THEN {"RemoveSourceFilter", "CreateSourceFilter"}
                            ELSE {})
                      \cup (IF tracks.tracks # <<>>
                            THEN {"SetInputAudioTracks"} ELSE {})]

scene_items(names) == SelectSeq(SceneOrder, LAMBDA n : n \in names)

(* Steps 7 to 10, 372-399: the sources logged and the record directory set *)
(* (both without effect on what follows), then enable_iso_recording on the *)
(* scene, its result unread; an exception it raises ends the call in the   *)
(* except block (422-426).                                                 *)
step_enable_iso ==
    /\ sm_pc = "enable_iso"
    /\ LET scene_exists == DEFAULT_SCENE_NAME \in obs.scenes
       IN \E items \in Replies(IF scene_exists THEN "ok" ELSE "rejected"),
             plugin_installed \in BOOLEAN,
             filtered \in (IF accepting THEN {obs.sceneItems \ audio_only}
                           ELSE SUBSET (obs.sceneItems \ audio_only)),
             assigned \in (IF accepting
                           THEN {obs.sceneItems \cap audio_only}
                           ELSE SUBSET (obs.sceneItems \cap audio_only)) :
            LET r == enable_iso_recording(items, scene_items(obs.sceneItems),
                                          plugin_installed, filtered,
                                          assigned)
            IN /\ sm_op' = [Operation("enable_iso_recording", r.ok, r.reqs,
                                      success(items), None, {},
                                      listing(items, obs.sceneItems))
                            EXCEPT !.raised = r.raised, !.video = r.video,
                                   !.audio = r.audio, !.tracks = r.tracks]
               /\ sm_goes_on(~r.raised, "start_record")
    /\ UNCHANGED <<obs, accepting, fault, profile_config, cp_reqs, todo, attempts,
                   smquiet>>

(* Step 11, 401-420: StartRecord acknowledged makes the state RECORDING *)
step_start_record ==
    /\ sm_pc = "start_record"
    /\ \E response \in Replies("ok") :
         /\ sm_op' = Operation("start_record", success(response),
                               Tx("StartRecord", response), FALSE, None,
                               expected_sources(profile_config),
                               obs.sceneItems)
         /\ state' = IF success(response) THEN RECORDING ELSE IDLE
    /\ sm_pc' = "idle"
    /\ UNCHANGED <<obs, accepting, fault, profile_config, cp_reqs, todo, attempts,
                   smquiet>>

(* Between two calls the remote app stops answering every request, or      *)
(* answers them all again.                                                 *)
obs_falters ==
    /\ sm_pc = "idle"
    /\ state = IDLE
    /\ attempts < MaxAttempts
    /\ accepting
    /\ accepting' = FALSE
    /\ fault' \in Faults
    /\ UNCHANGED <<state, obs, profile_config, sm_pc, sm_op, cp_reqs, todo,
                   attempts, smquiet>>

obs_recovers ==
    /\ sm_pc = "idle"
    /\ attempts < MaxAttempts
    /\ ~accepting
    /\ accepting' = TRUE
    /\ fault' = None
    /\ UNCHANGED <<state, obs, profile_config, sm_pc, sm_op, cp_reqs, todo,
                   attempts, smquiet>>

(* Between two calls the user adds a source of their own to the scene or   *)
(* takes one out of it.                                                    *)
user_adds_source ==
    /\ sm_pc = "idle"
    /\ state = IDLE
    /\ attempts < MaxAttempts
    /\ DEFAULT_SCENE_NAME \in obs.scenes
    /\ \E source_name \in ExtraSources \ obs.sceneItems :
         obs' = [obs EXCEPT !.inputs = @ \cup {source_name},
                            !.sceneItems = @ \cup {source_name}]
    /\ UNCHANGED <<state, accepting, fault, profile_config, sm_pc, sm_op, cp_reqs,
                   todo, attempts, smquiet>>

user_removes_source ==
    /\ sm_pc = "idle"
    /\ state = IDLE
    /\ attempts < MaxAttempts
    /\ \E source_name \in obs.sceneItems :
         obs' = [obs EXCEPT !.inputs = @ \ {source_name},
                            !.sceneItems = @ \ {source_name}]
    /\ UNCHANGED <<state, accepting, fault, profile_config, sm_pc, sm_op, cp_reqs,
                   todo, attempts, smquiet>>

NextSM ==
    \/ get_profile
    \/ step_ensure_profile
    \/ cp_profile
    \/ cp_switch
    \/ cp_check
    \/ cp_scene
    \/ cp_clear
    \/ cp_create
    \/ cp_verify
    \/ cp_returns
    \/ step_enable_iso
    \/ step_start_record
    \/ obs_falters
    \/ obs_recovers
    \/ user_adds_source
    \/ user_removes_source

SpecSM == Init /\ [][NextSM]_vars

(***************************************************************************)
(* File collection at the end of a session                                 *)
(* (recording_manager.py:491-566), on the two directories it scans.  Every *)
(* stat() and every move is taken to succeed: the handlers at 525-526 and  *)
(* 547-548 only log.                                                       *)
(***************************************************************************)
MaxFiles == 3
MaxTime == 2

(* search_dirs (507), in the order they are scanned: Videos, then raw/ *)
search_dirs == <<"videos", "raw">>

(* names the directories may hold *)
FileNames == {"2024-01-01 10-00-00 cam.mov", "cam.mov", "Screen.MKV",
              "2024-01-01_10-00-00_cam.mov", "notes.txt"}

(* a directory entry: where it is, its name, st_mtime, is_file() *)
File(dir, name, mtime, is_file) ==
    [dir |-> dir, name |-> name, mtime |-> mtime, is_file |-> is_file]

(* video_extensions (503) *)
video_extensions == {".mov", ".mkv", ".mp4", ".avi", ".flv"}

(* Path.suffix: the name from its last dot on, a leading dot not counted *)
suffix(name) ==
    LET dots == {i \in 2..Len(name) : SubSeq(name, i, i) = "."}
    IN  IF dots = {} THEN ""
        ELSE SubSeq(name, CHOOSE i \in dots : \A j \in dots : j <= i, Len(name))

(* file_path.suffix.lower() in video_extensions (516-517) *)
video_names == {name \in FileNames : lower(suffix(name)) \in video_extensions}

(* re.sub of an anchored pattern (558-564); in the pattern "d" stands for \d *)
sub_prefix(pattern, filename) ==
    LET digit == {"0", "1", "2", "3", "4", "5", "6", "7", "8", "9"}
        hit == /\ Len(filename) >= Len(pattern)
               /\ \A i \in 1..Len(pattern) :
                     IF SubSeq(pattern, i, i) = "d"
                     THEN SubSeq(filename, i, i) \in digit
                     ELSE SubSeq(filename, i, i) = SubSeq(pattern, i, i)
    IN  IF hit THEN SubSeq(filename, Len(pattern) + 1, Len(filename))
        ELSE filename

(* _clean_filename (552-566) *)
clean_filename(filename) ==
    LET first == sub_prefix("dddd-dd-dd dd-dd-dd ", filename)
        cleaned == IF first = filename
                   THEN sub_prefix("dddd-dd-dd_dd-dd-dd_", filename)
                   ELSE first
    IN  IF cleaned # "" THEN cleaned ELSE filename

new_name == [name \in FileNames |-> clean_filename(name)]

(* the test at 522-523, strict in the variant *)
modified_after(mtime, start) == mtime > start
modified_since(mtime, start) == mtime >= start

(* collected_files (505-526): the loop over the two directories *)
collected_files(entries, start) ==
    {f \in entries : /\ f.dir \in Range(search_dirs)
                     /\ f.is_file
                     /\ f.name \in video_names
                     /\ modified_since(f.mtime, start)}

(* What the moves at 538-548 can leave in the session folder: one entry per *)
(* new name; of files moved under the same new name the one moved last is   *)
(* there, one of raw/ if there is one, since Videos is scanned first.       *)
moved_into(collected) ==
    {kept \in SUBSET collected :
        /\ \A f \in collected : \E k \in kept : new_name[k.name] = new_name[f.name]
        /\ \A k, l \in kept : new_name[k.name] = new_name[l.name] => k = l
        /\ \A k \in kept : \A f \in collected :
              (new_name[f.name] = new_name[k.name] /\ f.dir = "raw")
              => k.dir = "raw"}

(* OBS, or anything else, writes a new entry into one of the directories *)
file_written ==
    /\ Cardinality(files) < MaxFiles
    /\ cutoff = NoTime
    /\ \E dir \in Range(search_dirs), name \in FileNames, is_file \in BOOLEAN :
          /\ \A f \in files : ~(f.dir = dir /\ f.name = name)
          /\ files' = files \cup {File(dir, name, now, is_file)}
    /\ UNCHANGED <<session_folder, start_time, now, cutoff>>
    /\ UNCHANGED <<rmvars, connected, wsvars, smvars, othervars>>

(* a file that is already there is written to again *)
file_modified ==
    /\ cutoff = NoTime
    /\ \E f \in files :
          /\ f.is_file
          /\ f.mtime < now
          /\ files' = (files \ {f}) \cup {File(f.dir, f.name, now, TRUE)}
    /\ UNCHANGED <<session_folder, start_time, now, cutoff>>
    /\ UNCHANGED <<rmvars, connected, wsvars, smvars, othervars>>

time_passes ==
    /\ now < MaxTime
    /\ cutoff = NoTime
    /\ now' = now + 1
    /\ UNCHANGED <<files, session_folder, start_time, cutoff>>
    /\ UNCHANGED <<rmvars, connected, wsvars, smvars, othervars>>

(* SessionInfo is made (408-414): start_time is datetime.now() (60) *)
session_starts ==
    /\ start_time = NoTime
    /\ cutoff = NoTime
    /\ start_time' = now
    /\ UNCHANGED <<files, session_folder, now, cutoff>>
    /\ UNCHANGED <<rmvars, connected, wsvars, smvars, othervars>>

(* stop_recording from its step 4 on: _collect_recordings (465, 491-550),  *)
(* then the session is cleared (486-489).  Nothing collected: no folder is *)
(* made (528-530).                                                         *)
collect_session ==
    /\ start_time # NoTime
    /\ LET collected == collected_files(files, start_time)
       IN  /\ files' = files \ collected
           /\ session_folder' \in
                 {{[name |-> new_name[k.name], from |-> k] : k \in kept} :
                     kept \in moved_into(collected)}
    /\ cutoff' = start_time
    /\ start_time' = NoTime
    /\ UNCHANGED now
    /\ UNCHANGED <<rmvars, connected, wsvars, smvars, othervars>>

NextFiles ==
    \/ file_written
    \/ file_modified
    \/ time_passes
    \/ session_starts
    \/ collect_session

SpecFiles == Init /\ [][NextFiles]_vars

(***************************************************************************)
(* OBSWebSocket.connect (obs_websocket.py:110-183) attempt by attempt.     *)
(***************************************************************************)
MaxTries == 3

(* What an attempt (122-164) meets: the socket is refused (160) or not     *)
(* opened within 5 s (124-127, 158); no Hello within 5 s (131), or another *)
(* frame in its place (135, 156); no Identified within 5 s (145), or       *)
(* another frame in its place (149, 154); the Identified frame.            *)
AttemptEvents == {"refused", "open_timeout", "hello_timeout",
                  "hello_unexpected", "identified_timeout",
                  "identified_unexpected", "identified"}

attempt_outcome(event) ==
    CASE event \in {"refused", "open_timeout"} -> "refused"
      [] event \in {"hello_timeout", "hello_unexpected"} -> "no_hello"
      [] event \in {"identified_timeout", "identified_unexpected"}
           -> "not_identified"
      [] OTHER -> "identified"

(* a loop that goes round once more than it was asked to *)
in_range_inclusive(attempt, max_retries) == attempt <= max_retries

(* for attempt in range(max_retries), 121: attempt is one to be made *)
in_range(attempt, max_retries) == attempt < max_retries

(* connect(max_retries) is called (110-121) *)
connect_called ==
    /\ ws # None
    /\ retry.pc = "idle"
    /\ handshakes < MaxHandshakes
    /\ \E max_retries \in 1..MaxTries :
         retry' = [pc |-> "trying", max_retries |-> max_retries,
                   tried |-> <<>>, rv |-> None]
    /\ UNCHANGED <<rmvars, connected, wsvars, smvars, fsvars, devvars, cbvars>>

(* One turn of the loop 121-171, or its end at 172-183 when no attempt is  *)
(* left.  Only the remote application running can say Hello.               *)
connect_attempt ==
    /\ retry.pc = "trying"
    /\ IF in_range(Len(retry.tried), retry.max_retries)
       THEN \E event \in (IF obs_running THEN AttemptEvents
                          ELSE {"refused", "open_timeout"}) :
              LET outcome == attempt_outcome(event) IN
              /\ retry' = [retry EXCEPT
                             !.tried = Append(@, event),
                             !.pc = IF attempt_connects(outcome) THEN "idle"
                                    ELSE @,
                             !.rv = IF attempt_connects(outcome) THEN "True"
                                    ELSE @]
              /\ connected' = (connected \/ attempt_connects(outcome))
              /\ link_alive' = (IF outcome = "refused" THEN link_alive
                                ELSE attempt_connects(outcome))
              /\ handshakes' = (IF attempt_connects(outcome)
                                THEN handshakes + 1 ELSE handshakes)
              /\ connect_rv' = (IF attempt_connects(outcome) THEN "True"
                                ELSE connect_rv)
              /\ IF outcome = "refused"
                 THEN UNCHANGED <<wire, outstanding, arrived>>
                 ELSE wire' = <<>> /\ outstanding' = {} /\ arrived' = <<>>
       ELSE /\ retry' = [retry EXCEPT !.pc = "idle", !.rv = "False"]
            /\ connect_rv' = "False"
            /\ UNCHANGED <<connected, link_alive, handshakes, wire,
                           outstanding, arrived>>
    /\ UNCHANGED <<rmquiet, request_id, event_callbacks,
                   global_event_callbacks, invoked, transmitted, callvars>>
    /\ UNCHANGED <<smvars, fsvars, devvars, cbvars>>

(* The remote application comes and goes while connect() tries. *)
obs_comes_or_goes ==
    /\ retry.pc = "trying"
    /\ obs_running' = ~obs_running
    /\ link_alive' = (link_alive /\ ~obs_running)
    /\ UNCHANGED <<state, session, last_error, ws, source_manager,
                   session_log, connected, pc, call, rv, sent, steps,
                   record_resp, iso_scene, wsvars>>
    /\ UNCHANGED <<smvars, fsvars, othervars>>

NextRetry ==
    \/ create_client
    \/ connect_called
    \/ connect_attempt
    \/ obs_comes_or_goes
    \/ disconnect

SpecRetry == Init /\ [][NextRetry]_vars

(***************************************************************************)
(* Device resolution and the verify-and-fix pass                           *)
(* (device_enumerator.py:374-388, obs_source_manager.py:281-414, 522-620), *)
(* with a remote application that answers every request.                   *)
(***************************************************************************)
MaxInputs == 2
MaxChanges == 1

(* names the system may enumerate, labels a profile may use *)
CameraDevices == {"HD Webcam", "Webcam", "Capture Card"}
AudioDevices == {"USB Mic", "Headset"}
CameraLabels == {"Webcam", "Camera 1", "Camera 3", "Front"}
AudioLabels == {"Mic 1", "Microphone", "Headset", "Desk"}

(* VideoDevice / AudioDevice (device_enumerator.py:15-35): DirectShow and *)
(* the audio API use the name as the id (104, 209)                        *)
Device(name) == [name |-> name, device_id |-> name]
NoDevice == [name |-> "", device_id |-> ""]

(* the lists an enumeration can give: devices in any order, in part *)
Enumerations(names) ==
    {<<>>} \cup {<<Device(a)>> : a \in names}
    \cup {pair \in {<<Device(a), Device(b)>> : a \in names, b \in names} :
             pair[1] # pair[2]}

(* sub in s *)
contains(s, sub) ==
    \E i \in 0..(Len(s) - Len(sub)) : SubSeq(s, i + 1, i + Len(sub)) = sub

(* only the name itself is a match *)
name_equals(name, device_name) == name = device_name

(* the test at 378 and 386: case-insensitive, either inside the other *)
name_matches(name, device_name) ==
    \/ contains(lower(device_name), lower(name))
    \/ contains(lower(name), lower(device_name))

matching == [name \in CameraLabels \cup AudioLabels,
             device_name \in CameraDevices \cup AudioDevices |->
                name_matches(name, device_name)]

(* find_camera_by_name, find_audio_by_name (374-388): the first match *)
find_by_name(name, devices) ==
    LET hits == {i \in DOMAIN devices : matching[name, devices[i].name]}
    IN  IF hits = {} THEN NoDevice ELSE devices[Min(hits)]

(* int(device_name.split()[-1]) (303, 365): the number the last word is, *)
(* 0 when it is none (ValueError)                                        *)
RECURSIVE int(_)
int(word) ==
    LET digit == [c \in {"0", "1", "2", "3", "4", "5", "6", "7", "8", "9"} |->
                    CASE c = "0" -> 0 [] c = "1" -> 1 [] c = "2" -> 2
                      [] c = "3" -> 3 [] c = "4" -> 4 [] c = "5" -> 5
                      [] c = "6" -> 6 [] c = "7" -> 7 [] c = "8" -> 8
                      [] OTHER -> 9]
        last == SubSeq(word, Len(word), Len(word))
    IN  IF word = "" \/ \E i \in 1..Len(word) :
                           SubSeq(word, i, i) \notin DOMAIN digit
        THEN 0
        ELSE IF Len(word) = 1 THEN digit[last]
        ELSE 10 * int(SubSeq(word, 1, Len(word) - 1)) + digit[last]

last_word(s) ==
    LET spaces == {i \in 1..Len(s) : SubSeq(s, i, i) = " "}
    IN  IF spaces = {} THEN s
        ELSE SubSeq(s, (CHOOSE i \in spaces : \A j \in spaces : j <= i) + 1,
                    Len(s))

(* the N of a generic label "<prefix> N" (300-303, 362-365), 0 for a    *)
(* label that is not generic or has no number                           *)
generic_number(prefix) ==
    [name \in CameraLabels \cup AudioLabels |->
        IF startswith(lower(name), prefix) THEN int(last_word(name)) ELSE 0]

camera_number == generic_number("camera ")
mic_number == generic_number("mic ")

(* the device id create_camera_capture binds (292-314) *)
camera_device_id(device_name, cameras) ==
    LET device == find_by_name(device_name, cameras) IN
    IF device # NoDevice THEN device.device_id
    ELSE IF camera_number[device_name] \in 1..Len(cameras)
    THEN cameras[camera_number[device_name]].device_id
    ELSE device_name

(* the tests at 362 and 376 *)
mic_names == {name \in AudioLabels : startswith(lower(name), "mic ")}
default_names == {name \in AudioLabels :
                    lower(name) \in {"microphone", "mic", "audio", "default"}}

(* the device id create_audio_capture binds (355-388) *)
audio_device_id(device_name, audio_devices) ==
    LET device == find_by_name(device_name, audio_devices) IN
    IF device # NoDevice THEN device.device_id
    ELSE IF mic_number[device_name] \in 1..Len(audio_devices)
    THEN audio_devices[mic_number[device_name]].device_id
    ELSE IF /\ device_name \notin mic_names
            /\ device_name \notin default_names
            /\ audio_devices # <<>>
    THEN audio_devices[1].device_id
    ELSE "default"

(* an input of OBS: its name, its kind, the device in its settings *)
Input(name, kind, device) == [name |-> name, kind |-> kind, device |-> device]

(* _verify_and_fix_camera (547-584): the device it expects, "" for none *)
expected_camera(input_name, cameras) ==
    find_by_name(input_name, cameras).device_id

(* _verify_and_fix_audio (586-620): the device it would select *)
expected_audio(input_name, audio_devices) ==
    LET device == find_by_name(input_name, audio_devices) IN
    IF device # NoDevice THEN device.device_id ELSE "default"

(* a microphone is corrected like a camera, on any difference *)
needs_fix_on_mismatch(input, cameras, audio_devices) ==
    IF input.kind = "camera"
    THEN /\ expected_camera(input.name, cameras) # ""
         /\ input.device # expected_camera(input.name, cameras)
    ELSE input.device # expected_audio(input.name, audio_devices)

(* the input gets a SetInputSettings: a camera whose expected device is  *)
(* found and differs (564-572), a microphone with an empty device (598)  *)
needs_fix(input, cameras, audio_devices) ==
    IF input.kind = "camera"
    THEN /\ expected_camera(input.name, cameras) # ""
         /\ input.device # expected_camera(input.name, cameras)
    ELSE input.device = ""

fixed_device(input, cameras, audio_devices) ==
    IF input.kind = "camera" THEN expected_camera(input.name, cameras)
    ELSE expected_audio(input.name, audio_devices)

(* get_cameras, get_audio_inputs (64-169, 173-270): read once, then cached *)
enumerate_devices ==
    /\ ~enumerated
    /\ enumerated' = TRUE
    /\ enum_cameras' \in Enumerations(CameraDevices)
    /\ enum_audio' \in Enumerations(AudioDevices)
    /\ UNCHANGED <<input_settings, settings_read, fixes, changes>>
    /\ UNCHANGED <<rmvars, connected, wsvars, smvars, fsvars, retry, cbvars>>

(* create_camera_capture (281-343) for a camera of the profile; the source *)
(* is named as the camera is (746-748)                                     *)
create_camera_capture ==
    /\ enumerated
    /\ Cardinality(input_settings) < MaxInputs
    /\ \E camera_name \in CameraLabels :
         /\ \A i \in input_settings : i.name # camera_name
         /\ input_settings' = input_settings \cup
               {Input(camera_name, "camera",
                      camera_device_id(camera_name, enum_cameras))}
    /\ UNCHANGED <<enumerated, enum_cameras, enum_audio, settings_read, fixes,
                   changes>>
    /\ UNCHANGED <<rmvars, connected, wsvars, smvars, fsvars, retry, cbvars>>

(* create_audio_capture (345-414) for an audio input of the profile *)
create_audio_capture ==
    /\ enumerated
    /\ Cardinality(input_settings) < MaxInputs
    /\ \E audio_name \in AudioLabels :
         /\ \A i \in input_settings : i.name # audio_name
         /\ input_settings' = input_settings \cup
               {Input(audio_name, "audio",
                      audio_device_id(audio_name, enum_audio))}
    /\ UNCHANGED <<enumerated, enum_cameras, enum_audio, settings_read, fixes,
                   changes>>
    /\ UNCHANGED <<rmvars, connected, wsvars, smvars, fsvars, retry, cbvars>>

(* In OBS the device of an input is changed by hand, or is lost. *)
device_changed ==
    /\ changes < MaxChanges
    /\ changes' = changes + 1
    /\ \E i \in input_settings :
       \E device \in {"", "default"} \cup CameraDevices \cup AudioDevices :
         /\ device # i.device
         /\ input_settings' = (input_settings \ {i})
                              \cup {Input(i.name, i.kind, device)}
    /\ UNCHANGED <<enumerated, enum_cameras, enum_audio, settings_read, fixes>>
    /\ UNCHANGED <<rmvars, connected, wsvars, smvars, fsvars, retry, cbvars>>

(* verify_and_fix_input_settings (522-545) over the cameras and the audio *)
(* inputs of the profile                                                  *)
verify_and_fix ==
    /\ enumerated
    /\ input_settings # {}
    /\ LET broken == {i \in input_settings :
                        needs_fix(i, enum_cameras, enum_audio)}
       IN  /\ settings_read' = input_settings
           /\ fixes' = {Input(i.name, i.kind,
                              fixed_device(i, enum_cameras, enum_audio)) :
                          i \in broken}
           /\ input_settings' = (input_settings \ broken) \cup fixes'
    /\ UNCHANGED <<enumerated, enum_cameras, enum_audio, changes>>
    /\ UNCHANGED <<rmvars, connected, wsvars, smvars, fsvars, retry, cbvars>>

NextDevices ==
    \/ enumerate_devices
    \/ create_camera_capture
    \/ create_audio_capture
    \/ device_changed
    \/ verify_and_fix

SpecDevices == Init /\ [][NextDevices]_vars

(***************************************************************************)
(* The state callbacks (recording_manager.py:105-117) at the five places   *)
(* the state is set (311, 418, 424, 440, 488), one caller.                 *)
(***************************************************************************)
MaxStateCallbacks == 2
StateCallbacks == {"app", "ui"}

(* the loop without its try: the first callback that raises ends it *)
set_state_unguarded(new_state, callbacks, raising) ==
    LET bad == {i \in DOMAIN callbacks : callbacks[i] \in raising}
        made == IF bad = {} THEN callbacks
                ELSE SubSeq(callbacks, 1, Min(bad))
    IN  Notice(new_state, made, Range(made) \cap raising, bad # {})

(* _set_state (109-117): the state is set (111), then every callback is   *)
(* called in order, each inside its own try (113-117)                     *)
set_state(new_state, callbacks, raising) ==
    Notice(new_state, callbacks, Range(callbacks) \cap raising, FALSE)

(* add_state_callback (105-107) *)
add_state_callback ==
    /\ Len(state_callbacks) < MaxStateCallbacks
    /\ \E callback \in StateCallbacks :
         state_callbacks' = Append(state_callbacks, callback)
    /\ UNCHANGED <<notified, rmvars, connected, wsvars, smvars, fsvars, retry,
                   devvars>>

(* What is left unchanged when only the state is set. *)
only_state == <<session, last_error, ws, source_manager, session_log,
                obs_running, link_alive, pc, call, rv, sent, steps,
                record_resp, iso_scene, connected, wsvars, smvars, fsvars,
                retry, devvars, state_callbacks>>

(* One of the places the state is set: from the state before to the state *)
(* asked for.  An error that left _set_state at 418 would be caught at    *)
(* 422 and the state set to IDLE (424); elsewhere it would leave the call *)
(* with the state set.                                                    *)
transition(from, to) ==
    /\ state = from
    /\ \E raising \in SUBSET Range(state_callbacks) :
         LET done == set_state(to, state_callbacks, raising) IN
         /\ notified' = done
         /\ state' = IF done.propagated /\ to = RECORDING THEN IDLE
                     ELSE done.state
    /\ UNCHANGED only_state

(* 311 *)
set_starting == transition(IDLE, STARTING)
(* 418 *)
set_recording == transition(STARTING, RECORDING)
(* 424 *)
set_idle_after_failure == transition(STARTING, IDLE)
(* 440 *)
set_stopping == transition(RECORDING, STOPPING)
(* 488 *)
set_idle_after_stop == transition(STOPPING, IDLE)

NextCallbacks ==
    \/ add_state_callback
    \/ set_starting
    \/ set_recording
    \/ set_idle_after_failure
    \/ set_stopping
    \/ set_idle_after_stop

SpecCallbacks == Init /\ [][NextCallbacks]_vars

(***************************************************************************)
(* One request wait (obs_websocket.py:236-270) beside a server that may    *)
(* push events for as long as it likes.  The record of the events read and *)
(* pushed is not kept here, so that the stream need not end.               *)
(***************************************************************************)

(* a turn of the loop that reads a frame other than an event: 237-262 *)
recv_answer(t) ==
    /\ wire # <<>>
    /\ ~is_event(Head(wire))
    /\ recv(t)

(* a turn of the loop that reads an event (263-270) and goes back to a    *)
(* new wait_for (237); no callback is registered                          *)
recv_event(t) ==
    /\ wpc[t] = "waiting"
    /\ wire # <<>>
    /\ is_event(Head(wire))
    /\ wire' = Tail(wire)
    /\ since_recv' = [since_recv EXCEPT ![t] = 0]
    /\ UNCHANGED <<rmquiet, connected, link_alive, clientvars, outstanding,
                   arrived, transmitted, wpc, cur, result, answer, events,
                   dropped, since_sent>>
    /\ UNCHANGED <<smvars, fsvars, othervars>>

(* The server pushes one more event, once the client has read what was   *)
(* sent before.                                                           *)
server_event_again ==
    /\ link_alive
    /\ ~TimerDue
    /\ wire = <<>>
    /\ \E event_type \in EventTypes :
         wire' = Append(wire, EventFrame(event_type))
    /\ UNCHANGED <<rmquiet, connected, link_alive, clientvars, outstanding,
                   arrived, transmitted, callvars>>
    /\ UNCHANGED <<smvars, fsvars, othervars>>

NextWait ==
    \/ create_client
    \/ connect
    \/ send_request(MainThread)
    \/ recv_answer(MainThread)
    \/ recv_event(MainThread)
    \/ recv_timeout(MainThread)
    \/ recv_error(MainThread)
    \/ tick
    \/ server_responds
    \/ server_event_again
    \/ server_closes

(* The event loop runs the call whenever a frame can be read or its timer  *)
(* has run out; time cannot be held back by frames that keep coming, so    *)
(* it passes again and again (strong fairness); nothing is asked of the    *)
(* server.                                                                 *)
SpecWait ==
    /\ InitWS
    /\ [][NextWait]_vars
    /\ WF_vars(recv_answer(MainThread))
    /\ WF_vars(recv_event(MainThread))
    /\ WF_vars(recv_timeout(MainThread))
    /\ WF_vars(recv_error(MainThread))
    /\ SF_vars(tick)

(***************************************************************************)
(* Properties of the recording manager, checked under Spec.                *)
(***************************************************************************)

(* the step on which thread t's call returns *)
Returns(t) == pc[t] # "returned" /\ pc'[t] = "returned"

(* C1: a start_recording call that finds the state STARTING, RECORDING or  *)
(* STOPPING returns false on that step, leaves the state and the           *)
(* SessionInfo as they are and has transmitted no request.                 *)
C1_StartRejected ==
    [][\A t \in Threads :
         (pc[t] = "ready" /\ call'[t].op = "start"
          /\ state \in {STARTING, RECORDING, STOPPING})
         => /\ pc'[t] = "returned"
            /\ rv'[t] = "False"
            /\ state' = state
            /\ session' = session
            /\ sent'[t] = {}]_vars

(* a start call has been turned away while a stop was in progress *)
C1_Witness ==
    \E t \in Threads :
       /\ pc[t] = "returned" /\ call[t].op = "start" /\ ~call[t].accepted
       /\ call[t].seen = STOPPING /\ rv[t] = "False"

(* C2: a stop_recording call that finds the state IDLE, STARTING or        *)
(* STOPPING returns false on that step, leaves the state and the           *)
(* SessionInfo as they are and has transmitted no request (no StopRecord). *)
C2_StopRejected ==
    [][\A t \in Threads :
         (pc[t] = "ready" /\ call'[t].op = "stop"
          /\ state \in {IDLE, STARTING, STOPPING})
         => /\ pc'[t] = "returned"
            /\ rv'[t] = "False"
            /\ state' = state
            /\ session' = session
            /\ sent'[t] = {}]_vars

(* a stop call has been turned away while a start was in progress *)
C2_Witness ==
    \E t \in Threads :
       /\ pc[t] = "returned" /\ call[t].op = "stop" /\ ~call[t].accepted
       /\ call[t].seen = STARTING /\ rv[t] = "False"

Transitions ==
    {<<IDLE, STARTING>>, <<STARTING, RECORDING>>, <<STARTING, IDLE>>,
     <<RECORDING, STOPPING>>, <<STOPPING, IDLE>>}

(* C3: the state changes only along IDLE -> STARTING, STARTING ->          *)
(* RECORDING, STARTING -> IDLE, RECORDING -> STOPPING and STOPPING -> IDLE. *)
C3_OnlyTransitions ==
    [][state' # state => <<state, state'>> \in Transitions]_vars

(* C4: an accepted start_recording that returns false returns with the     *)
(* state IDLE, no SessionInfo, a last error and the session logging        *)
(* cleared.                                                                *)
C4_StartFailure ==
    [][\A t \in Threads :
         (Returns(t) /\ call[t].op = "start" /\ call[t].accepted
          /\ rv'[t] = "False")
         => /\ state' = IDLE
            /\ session' = NoSession
            /\ last_error' # None
            /\ session_log' = None]_vars

C6_StartRecordLast ==
    \A t \in Threads :
       "StartRecord" \in sent[t]
       => /\ call[t].op = "start"
          /\ IsSubSeq(<<"project_folder", "connect", "ensure_profile_exists",
                        "configure_profile">>, steps[t])

(* StartRecord was transmitted by a call that had to launch the remote     *)
(* application first, and was not acknowledged                             *)
C6_Witness ==
    \E t \in Threads :
       /\ "StartRecord" \in sent[t] /\ rv[t] = "False"
       /\ "launch_obs" \in Range(steps[t])

C8_StopGoesOn ==
    [][\A t \in Threads :
         (Returns(t) /\ call[t].op = "stop" /\ call[t].accepted
          /\ record_resp[t] \notin {None, "ok"} /\ session # NoSession)
         => /\ IsSubSeq(<<"stop_record", "disable_iso_recording",
                          "collect_recordings">>, steps'[t])
            /\ iso_scene'[t] = session.scene_name]_vars

(* C9: whenever the state is RECORDING there is a SessionInfo, whenever it *)
(* is IDLE there is none (self._session holds at most one).                *)
C9_SessionMatchesState ==
    /\ state = RECORDING => session # NoSession
    /\ state = IDLE => session = NoSession

(***************************************************************************)
(* Properties of send_request, checked under SpecWS.                       *)
(***************************************************************************)

(* C10: a Response that send_request took from the socket is the status of *)
(* a response frame (op 7) whose id is the id this call allocated and      *)
(* sent, and carries that id; an event frame or the reply to another       *)
(* request is never the answer.                                            *)
C10_Correlation ==
    \A t \in Threads :
      answer[t] # NoFrame
      => /\ answer[t].op = OpRequestResponse
         /\ answer[t].requestId = cur[t].request_id
         /\ result[t].request_id = cur[t].request_id
         /\ result[t].request_type = cur[t].request_type
         /\ result[t].success = answer[t].result

(* the answer came after an event and after the late reply to an earlier   *)
(* request, both read by this call                                         *)
C10_Witness ==
    \E t \in Threads :
      /\ wpc[t] = "idle" /\ answer[t] # NoFrame
      /\ events[t] # <<>> /\ dropped[t] # {}

(* C14: a call of send_request made while the client is not connected      *)
(* returns in the same step the failed Response "Not connected to OBS",    *)
(* writes nothing to the socket and leaves the request-id counter as it    *)
(* was.                                                                    *)
C14_NotConnected ==
    [][\A t \in Threads :
         (~connected /\ wpc[t] = "idle" /\ result'[t] # result[t])
         => /\ ~result'[t].success
            /\ result'[t].error_message = "Not connected to OBS"
            /\ wpc'[t] = "idle"
            /\ request_id' = request_id
            /\ transmitted' = transmitted
            /\ outstanding' = outstanding]_vars

(* the short-circuit was taken by a client that had sent a request, was    *)
(* disconnected, and whose connect() then ran out of attempts              *)
C14_Witness ==
    /\ ~connected
    /\ connect_rv = "False"
    /\ transmitted # <<>>
    /\ request_id = Len(transmitted)
    /\ result[MainThread].error_message = "Not connected to OBS"

(* C12: a call of send_request is not waiting any more once more than the  *)
(* timeout has passed since it wrote its request, whatever frames without  *)
(* its id arrived meanwhile.                                               *)
C12_ReturnsWithinTimeout ==
    \A t \in Threads : wpc[t] = "waiting" => since_sent[t] <= Timeout

(* C17: when a call of send_request on a client whose connect() succeeded  *)
(* ends with the failure of a socket operation (the peer has closed the    *)
(* socket), the client is not connected afterwards.                        *)
C17_TornDownOnError ==
    [][\A t \in Threads :
         (/\ connect_rv = "True"
          /\ result'[t] # result[t]
          /\ result'[t].error_message = "exception")
         => ~connected']_vars

(***************************************************************************)
(* Properties of the connection, checked under SpecConn.                   *)
(***************************************************************************)

(* C15: between two calls of disconnect() the client performs at most one  *)
(* handshake, and while it is connected every connect() has returned True. *)
C15_IdempotentConnect ==
    /\ handshakes <= 1
    /\ connected => connect_rv = "True"

C18_IdsIncrease ==
    \A i \in DOMAIN transmitted : \A j \in DOMAIN transmitted :
      i < j => transmitted[i] < transmitted[j]

(***************************************************************************)
(* Properties of the events read by send_request, checked under SpecEv.    *)
(***************************************************************************)

(* the step is a waiting call's read of the frame at the head of the socket *)
Reads(frame) ==
    /\ \E t \in Threads : Waiting(t)
    /\ wire # <<>> /\ frame = Head(wire) /\ wire' = Tail(wire)

(* C13: while a call of send_request waits, the events it has handed to    *)
(* the dispatcher followed by the events still unread are the events that  *)
(* arrived, in the order of arrival; the step that reads an event hands    *)
(* that event to the dispatcher once and leaves the call waiting, with no  *)
(* Response returned; the step that reads the response with the call's id  *)
(* after them returns it.                                                  *)
C13_EventsDispatched ==
    [][\A t \in Threads : Waiting(t) =>
         /\ events'[t] \o EventTypesIn(wire') = arrived'
         /\ \A event_type \in EventTypes :
              Reads(EventFrame(event_type))
              => /\ events'[t] = Append(events[t], event_type)
                 /\ invoked'.event_type = event_type
                 /\ Waiting(t)'
                 /\ result' = result /\ answer' = answer
         /\ \A ok \in BOOLEAN :
              Reads(ResponseFrame(cur[t].request_id, ok))
              => /\ ~Waiting(t)'
                 /\ answer'[t] = ResponseFrame(cur[t].request_id, ok)
                 /\ result'[t].success = ok]_vars

(* two events of different types were read, each handed to a callback, and *)
(* the response that followed them was returned                            *)
C13_Witness ==
    /\ wpc[MainThread] = "idle"
    /\ answer[MainThread] # NoFrame
    /\ events[MainThread] = <<"SceneItemCreated", "RecordStateChanged">>
    /\ arrived = events[MainThread]
    /\ invoked.event_type = "RecordStateChanged"
    /\ invoked.calls # <<>>

(* the callbacks registered for this type only, neither for the other     *)
(* types nor globally                                                      *)
OnlyFor(event_type) ==
    Range(event_callbacks[event_type])
    \ (Range(global_event_callbacks)
        \cup UNION {Range(event_callbacks[e]) : e \in EventTypes \ {event_type}})

C20_RaisingCallback ==
    [][\A t \in Threads : Waiting(t) =>
         /\ \A T \in EventTypes :
              (Reads(EventFrame(T)) /\ invoked'.raised # {})
              => /\ Len(invoked'.calls)
                      = Len(event_callbacks[T]) + Len(global_event_callbacks)
                 /\ ~invoked'.propagated
                 /\ Waiting(t)'
                 /\ result' = result
         /\ \A ok \in BOOLEAN :
              (Reads(ResponseFrame(cur[t].request_id, ok))
               /\ invoked.raised # {})
              => /\ ~Waiting(t)'
                 /\ result'[t] = OBSResponse(ok, cur[t].request_type,
                                             cur[t].request_id,
                                             IF ok THEN None ELSE "comment")]_vars

(* the first callback called for the event raised, another was called      *)
(* after it, and the call returned the server's answer                     *)
C20_Witness ==
    /\ wpc[MainThread] = "idle"
    /\ answer[MainThread] # NoFrame
    /\ result[MainThread].success
    /\ events[MainThread] # <<>>
    /\ Len(invoked.calls) >= 2
    /\ invoked.calls[1] \in invoked.raised
    /\ invoked.calls[2] \notin invoked.raised

(***************************************************************************)
(* Properties of two calls of send_request in flight, checked under SpecCC. *)
(***************************************************************************)

(* C11: the response frame that carries the id of a thread's request is   *)
(* not read and discarded by the call of another thread, unless the first  *)
(* thread's call had timed out before (a late reply).                      *)
C11_NoCrossDiscard ==
    \A t \in Threads : \A d \in Threads \ {t} :
      cur[d].request_id \in dropped[t]
      => /\ wpc[d] = "idle"
         /\ result[d].error_message = "Request timed out"

(***************************************************************************)
(* Properties of the source manager, checked under SpecSM.                 *)
(***************************************************************************)

(* C21: ensure_profile_exists and ensure_scene_exists return true when the *)
(* listing names the entity, when the create request succeeds and when it  *)
(* fails with code 601, and false when it fails in any other way (another  *)
(* code, a timeout, a Response made without sending).                      *)
C21_EnsureExists ==
    sm_op.op \in {"ensure_profile_exists", "ensure_scene_exists"}
    => (sm_op.rv <=> \/ sm_op.listed
                     \/ success(sm_op.create)
                     \/ error_code(sm_op.create) = ALREADY_EXISTS)

(* the scene list could not be read, CreateScene was answered 601 *)
C21_Witness ==
    /\ sm_op.op = "ensure_scene_exists"
    /\ ~sm_op.listed
    /\ error_code(sm_op.create) = ALREADY_EXISTS
    /\ sm_op.rv

(* C22: check_if_profile_configured returns true exactly when the scene   *)
(* is among the listed scenes and "Display k" for every display k of the   *)
(* configuration, every camera label and every microphone label are among  *)
(* the scene's item names as read; sources beyond those change nothing.    *)
C22_ConfiguredIffAllPresent ==
    sm_op.op = "check_if_profile_configured"
    => (sm_op.rv <=>
          /\ sm_op.listed
          /\ \A k \in 1..Len(profile_config.displays) :
               ("Display " \o ToString(k)) \in sm_op.actual
          /\ \A i \in 1..Len(profile_config.cameras) :
               profile_config.cameras[i] \in sm_op.actual
          /\ \A i \in 1..Len(profile_config.audio_inputs) :
               profile_config.audio_inputs[i] \in sm_op.actual)

(* true for a scene that has a source of the user's besides the expected  *)
(* ones                                                                    *)
C22_Witness ==
    /\ sm_op.op = "check_if_profile_configured"
    /\ sm_op.rv
    /\ sm_op.actual \cap ExtraSources # {}
    /\ profile_config.audio_inputs # <<>>

(* the requests that change the structure of the scene *)
StructuralRequests ==
    {"CreateScene", "RemoveSceneItem", "CreateInput", "CreateSceneItem"}

(* C23: when ensure_profile_exists has held (the profile was listed or     *)
(* CreateProfile was answered 601) and the scene as read is listed and has *)
(* every expected source, configure_profile sends no CreateScene,          *)
(* RemoveSceneItem, CreateInput or CreateSceneItem and returns true.       *)
C23_FastPath ==
    /\ (/\ sm_op.op = "check_if_profile_configured"
        /\ sm_op.listed
        /\ expected_sources(profile_config) \subseteq sm_op.actual)
       => /\ sm_pc = "cp_done"
          /\ cp_reqs \cap StructuralRequests = {}
    /\ (sm_op.op = "configure_profile" /\ sm_op.listed)
       => /\ sm_op.rv
          /\ sm_op.reqs \cap StructuralRequests = {}

(* the fast path taken after CreateProfile was answered 601, in a scene    *)
(* that has a source besides the expected ones                             *)
C23_Witness ==
    /\ sm_op.op = "configure_profile"
    /\ sm_op.listed
    /\ sm_op.rv
    /\ "CreateProfile" \in sm_op.reqs
    /\ sm_op.actual \cap ExtraSources # {}

(* C24: a configure_profile that went through the structural              *)
(* reconciliation (scene cleared, displays, cameras and microphones        *)
(* created) returns true only if no expected source is missing from the    *)
(* scene then.                                                             *)
C24_MissingSourceFails ==
    (sm_op.op = "configure_profile" /\ ~sm_op.listed /\ sm_op.rv)
    => sm_op.expected \subseteq sm_op.actual

(* the audio-only sources among the items enable_iso_recording read, in   *)
(* the order it read them                                                  *)
AudioSourcesRead == SelectSeq(scene_items(sm_op.actual), is_audio_source)

(* C25: configure_audio_tracks, given n audio sources, sends a track       *)
(* assignment for each of the first min(n, 6) and for no other: the i-th   *)
(* source (from 0) is enabled on track i + 1 and disabled on the other     *)
(* tracks of 1..6.                                                         *)
C25_TrackAssignments ==
    (sm_op.op = "enable_iso_recording" /\ sm_op.listed)
    => /\ ~sm_op.raised
       /\ Len(sm_op.tracks) = Min({Len(AudioSourcesRead), 6})
       /\ \A i \in 1..Len(sm_op.tracks) :
            /\ sm_op.tracks[i].source = AudioSourcesRead[i]
            /\ \A t \in 1..6 : sm_op.tracks[i].track_config[t] <=> t = i

(* C26: enable_iso_recording returns true exactly when a video source got  *)
(* its recording filter or an audio source got a track; it returns false   *)
(* when the scene's items cannot be read or nothing was configured.        *)
C26_IsoResult ==
    sm_op.op = "enable_iso_recording"
    => /\ ~sm_op.raised
       /\ sm_op.rv <=> (sm_op.video # {} \/ sm_op.audio # {})
       /\ ~sm_op.listed => ~sm_op.rv

(* C29: a start_recording that follows an aborted one, for the same        *)
(* profile and with the remote app answering every request, ends in        *)
(* RECORDING with every expected source in the scene, whatever the aborted *)
(* call left in the remote app.                                            *)
C29_RetryConverges ==
    (sm_pc = "idle" /\ attempts = MaxAttempts /\ accepting)
    => /\ state = RECORDING
       /\ expected_sources(profile_config) \subseteq obs.sceneItems

(***************************************************************************)
(* Properties of the file collection, checked under SpecFiles.             *)
(***************************************************************************)

C28_NeverRaises ==
    [][\A t \in Threads :
         /\ wpc'[t] # "raised"
         /\ (/\ Waiting(t)
             /\ wpc'[t] # "waiting"
             /\ ~(wire # <<>> /\ Head(wire).op = OpRequestResponse
                              /\ Head(wire).requestId = cur[t].request_id))
            => /\ wpc'[t] = "idle"
               /\ result'[t].success = FALSE
               /\ result'[t].request_id = cur[t].request_id
               /\ result'[t].request_type = cur[t].request_type
         /\ (/\ wpc[t] = "idle"
             /\ request_id' # request_id
             /\ cur'[t].request_id = request_id'
             /\ wpc'[t] = "idle")
            => /\ result'[t].success = FALSE
               /\ result'[t].request_id = request_id'
               /\ result'[t].request_id > 0]_vars

(* a call has ended on a frame that does not parse, with a failure that   *)
(* carries its id                                                         *)
C28_Witness ==
    /\ wpc[MainThread] = "idle"
    /\ answer[MainThread] = Unparsable
    /\ result[MainThread].success = FALSE
    /\ result[MainThread].request_id = cur[MainThread].request_id
    /\ result[MainThread].request_id > 0

(***************************************************************************)
(* Recovery after the connection is lost, checked under Spec.              *)
(***************************************************************************)

(* C30: after the remote application has exited or restarted, a call of   *)
(* start_recording, the only call running, that gets past its step 3      *)
(* while the remote application runs holds a connection made by a fresh   *)
(* handshake: the socket behind the client is open, so the call can go on *)
(* to RECORDING.                                                          *)
C30_FreshHandshake ==
    [][\A t \in Threads :
         (/\ pc[t] = "s_connect"
          /\ pc'[t] = "s_ensure"
          /\ obs_running
          /\ state = STARTING
          /\ \A u \in Threads \ {t} : pc[u] = "ready")
         => link_alive']_vars

(***************************************************************************)
(* Two clicks, two worker threads, checked under Spec.                     *)
(***************************************************************************)

(* C31: of two calls of start_recording made from two threads while the   *)
(* state is IDLE at most one passes the guard: never are two threads past *)
(* the guard of start_recording at the same time.                         *)
C31_OneStartPipeline ==
    \A t, u \in Threads :
        (/\ call[t].op = "start" /\ call[t].accepted
         /\ call[u].op = "start" /\ call[u].accepted
         /\ pc[t] \notin {"ready", "returned"}
         /\ pc[u] \notin {"ready", "returned"})
        => t = u

(***************************************************************************)
(* Properties of connect() attempt by attempt, checked under SpecRetry.    *)
(***************************************************************************)

(* C32: connect(max_retries) makes at most max_retries attempts; an        *)
(* attempt that is refused, times out or reads another frame in place of   *)
(* Hello or of Identified is a failed one, and connect returns False only  *)
(* when max_retries attempts have failed; it returns True at the first     *)
(* attempt that completes the handshake, which is the last it makes.       *)
C32_BoundedAttempts ==
    LET tried == retry.tried
        completed == {i \in 1..Len(tried) : tried[i] = "identified"}
    IN  /\ Len(tried) <= retry.max_retries
        /\ completed \subseteq {Len(tried)}
        /\ retry.rv = "True" <=> completed # {}
        /\ retry.rv = "False"
           => (Len(tried) = retry.max_retries /\ retry.pc = "idle")
        /\ (retry.pc = "idle" /\ retry.max_retries > 0)
           => retry.rv \in {"True", "False"}

(* connect(3) has returned True at its third attempt, after one attempt    *)
(* that timed out and one that read another frame in place of Hello        *)
C32_Witness ==
    /\ retry.rv = "True"
    /\ retry.tried = <<"hello_timeout", "hello_unexpected", "identified">>

(***************************************************************************)
(* Properties of the device bindings, checked under SpecDevices.           *)
(***************************************************************************)

C34_ExactMatchFirst ==
    [][\A new \in input_settings' :
         (new.kind = "camera" /\ \A i \in input_settings : i.name # new.name)
         => /\ \A k \in DOMAIN enum_cameras :
                  enum_cameras[k].name = new.name
                  => new.device = enum_cameras[k].device_id
            /\ new.device = expected_camera(new.name, enum_cameras)]_vars

(***************************************************************************)
(* Properties of the state callbacks, checked under SpecCallbacks.         *)
(***************************************************************************)

(* C35: every change of the state calls all the registered callbacks, in   *)
(* the order of registration, with the new state set; a callback that      *)
(* raises stops none of the others, and the state reached is the one the   *)
(* transition asked for: from STARTING, RECORDING or IDLE as the pipeline   *)
(* decided, whatever the callbacks did.                                    *)
C35_CallbacksNotified ==
    [][state' # state
       => /\ notified'.calls = state_callbacks
          /\ notified'.state = state'
          /\ ~notified'.propagated
          /\ notified'.raised \subseteq Range(state_callbacks)
          /\ <<state, state'>> \in {<<IDLE, STARTING>>, <<STARTING, RECORDING>>,
                                    <<STARTING, IDLE>>, <<RECORDING, STOPPING>>,
                                    <<STOPPING, IDLE>>}]_vars

(* RECORDING was reached although the first of two callbacks raised, and  *)
(* the second was called after it                                         *)
C35_Witness ==
    /\ state = RECORDING
    /\ Len(state_callbacks) = 2
    /\ notified.state = RECORDING
    /\ notified.calls = state_callbacks
    /\ state_callbacks[1] \in notified.raised
    /\ state_callbacks[2] # state_callbacks[1]

(* C36: the transcription is detached from stop_recording: while a         *)
(* stop_recording call has its transcription step still to finish, a       *)
(* start_recording call made by another thread is accepted.                *)
C36_StartDuringTranscription ==
    [][\A t, u \in Threads :
         (/\ call[t].op = "stop"
          /\ pc[t] = "p_transcribe"
          /\ pc[u] = "ready"
          /\ pc'[u] # "ready"
          /\ call'[u].op = "start")
         => call'[u].accepted]_vars

(* C37: the ISO step never ends start_recording: whatever the scene holds, *)
(* the call goes from the ISO step on to StartRecord, and the step was     *)
(* addressed to the scene name.                                            *)
C37_IsoStepGoesOn ==
    [][\A t \in Threads :
         (pc[t] = "s_iso" /\ pc'[t] # "s_iso")
         => /\ pc'[t] = "s_record"
            /\ iso_scene'[t] = DEFAULT_SCENE_NAME
            /\ rv'[t] = None]_vars

(* C38: the result of an accepted stop_recording does not depend on the    *)
(* answer to StopRecord: with a client the StopRecord step always goes on  *)
(* to the ISO step, whatever the Response, and the call returns true       *)
(* unless its except block set the stop failure.                           *)
C38_TrueWhateverObsAnswered ==
    [][\A t \in Threads :
         (call[t].op = "stop" /\ call[t].accepted)
         => /\ (pc[t] = "p_stop" /\ pc'[t] # "p_stop" /\ ws # None)
               => /\ pc'[t] = "p_iso"
                  /\ rv'[t] = None
                  /\ record_resp'[t] # None
                  /\ last_error' = last_error
            /\ (Returns(t) /\ last_error' # "Stop recording failed")
               => rv'[t] = "True"]_vars

(* stop_recording returned true with the state IDLE although StopRecord   *)
(* was rejected or not answered                                           *)
C38_Witness ==
    \E t \in Threads :
       /\ pc[t] = "returned" /\ call[t].op = "stop" /\ call[t].accepted
       /\ rv[t] = "True" /\ state = IDLE
       /\ record_resp[t] \notin {None, "ok"}
       /\ "StopRecord" \in sent[t]

(* C39: a start_recording or stop_recording call rejected for the state    *)
(* leaves its rejection message as the last error; an accepted             *)
(* start_recording clears the last error as it enters the pipeline; no     *)
(* step of a stop_recording call clears a last error that is set.          *)
C39_LastErrorFrame ==
    [][\A t \in Threads :
         /\ (pc[t] = "ready" /\ pc'[t] = "returned" /\ call'[t].op = "start")
            => /\ ~call'[t].accepted
               /\ last_error' = "Cannot start recording: not in idle state"
         /\ (pc[t] = "ready" /\ pc'[t] = "returned" /\ call'[t].op = "stop")
            => /\ ~call'[t].accepted
               /\ last_error' = "Cannot stop recording: not recording"
         /\ (pc[t] = "s_enter" /\ pc'[t] # "s_enter")
            => /\ call[t].accepted
               /\ pc'[t] = "s_folder"
               /\ last_error' = None
         /\ (pc'[t] # pc[t] /\ call'[t].op = "stop" /\ last_error # None)
            => last_error' # None]_vars

(* a second start during a RECORDING session was rejected and left its    *)
(* message                                                                *)
C39_Witness ==
    \E t \in Threads :
       /\ state = RECORDING /\ session # NoSession
       /\ pc[t] = "returned" /\ call[t].op = "start" /\ ~call[t].accepted
       /\ call[t].seen = RECORDING
       /\ rv[t] = "False"
       /\ last_error = "Cannot start recording: not in idle state"

(***************************************************************************)
(* Termination of the request waits, checked under SpecWait.               *)
(***************************************************************************)

(* C40: every request wait that start_recording or stop_recording enters   *)
(* ends, in a response or in a timeout, so that the call can return.       *)
C40_RequestWaitEnds ==
    \A t \in Threads : Waiting(t) ~> ~Waiting(t)

====
